---- MODULE Spec2Model ----
(***************************************************************************)
(* Verification model of the browser-automation scraping layer of the      *)
(* repository: EnhancedTwitterScraper (src/scrapers/selenium_scraper_ver4  *)
(* .py).  The rendering surface (the Selenium driver and the page) is the  *)
(* environment: what it renders in a pass is a nondeterministic input.     *)
(***************************************************************************)
EXTENDS Integers, Sequences, FiniteSets, TLC

(***************************************************************************)
(* Bounds of the model (not program constants).                            *)
(***************************************************************************)
MaxTweetsBound == 3
MaxScrollsBound == 4
MaxVisible == 2
MaxIntDigits == 2
MaxFracDigits == 1
PairTweets == 2
MaxSubBound == 2
MaxSubScrolls == 3
EngTweets == 1
EngScrollsMain == 2
MaxPerTweet == 1
MaxCalls == 2
MaxPollDelay == 1
MaxRendered == 3

(***************************************************************************)
(* Program constants.                                                      *)
(***************************************************************************)
\* "if no_new_tweets_count >= 3" (the stall limit)
stall_limit == 3

\* login_timeout = 120
login_timeout == 120

\* time.sleep(5) in the manual wait
PollSleep == 5
\* multiplier of a label in K notation
KiloMultiplier == 1000
\* multiplier of a label in M notation
MegaMultiplier == 1000000
\* max_scrolls=30 passed to scrape_tweet_replies / scrape_tweet_quotes
EngSubMaxScrolls == 30

(***************************************************************************)
(* Values the driver hands to the code.                                    *)
(*   NoLink : get_attribute('href') of an element without that attribute   *)
(*            (Selenium returns None, it does not raise)                   *)
(*   NoElem : find_element raised NoSuchElement / StaleElementReference    *)
(*   NoAttr : get_attribute returned None                                  *)
(***************************************************************************)
NoLink == "None"
NoElem == <<"NoSuchElement">>
NoAttr == <<"None">>
Links == {"A", "B", "C"}


(***************************************************************************)
(* Engagement labels.  A label is the aria-label text as a sequence of     *)
(* one-character strings; get_count parses it (extract_single_tweet).      *)
(***************************************************************************)
Digits == {"1", "2", "3", "4", "8"}

DigitValue(c) ==
    CASE c = "1" -> 1 [] c = "2" -> 2 [] c = "3" -> 3 [] c = "4" -> 4
      [] c = "8" -> 8 [] OTHER -> 0

\* str.lower() on one character
LowerChar(c) ==
    CASE c = "K" -> "k" [] c = "M" -> "m" [] c = "L" -> "l" [] c = "R" -> "r"
      [] OTHER -> c

\* label.lower()
LowerLabel(s) == [i \in 1..Len(s) |-> LowerChar(s[i])]

\* 'k' in label
Contains(s, c) == \E i \in 1..Len(s) : s[i] = c

\* label.replace(',', '')
RECURSIVE RemoveCommas(_)
RemoveCommas(s) ==
    IF s = <<>> THEN <<>>
    ELSE IF Head(s) = "," THEN RemoveCommas(Tail(s))
    ELSE <<Head(s)>> \o RemoveCommas(Tail(s))

\* first index >= i that is not a digit (\d* taken greedily from i)
RECURSIVE DigitRunEnd(_, _)
DigitRunEnd(s, i) ==
    IF i <= Len(s) /\ s[i] \in Digits THEN DigitRunEnd(s, i + 1) ELSE i

\* first index >= i that is not whitespace (\s* taken greedily from i)
RECURSIVE SpaceRunEnd(_, _)
SpaceRunEnd(s, i) ==
    IF i <= Len(s) /\ s[i] = " " THEN SpaceRunEnd(s, i + 1) ELSE i

\* The pattern (\d+\.?\d*)\s*<unit> tried at position i: the index after the
\* captured group when it matches there, 0 when it does not.  Every quantifier
\* is greedy and no shorter choice can make a failed attempt succeed.
UnitMatchAt(s, i, unit) ==
    LET a == DigitRunEnd(s, i)
        b == IF a <= Len(s) /\ s[a] = "." THEN a + 1 ELSE a
        c == DigitRunEnd(s, b)
        d == SpaceRunEnd(s, c)
    IN  IF a > i /\ d <= Len(s) /\ s[d] = unit THEN c ELSE 0

\* re.findall(r'(\d+\.?\d*)\s*<unit>', label): nums[0], the leftmost match,
\* as a list of zero or one captured group
FindUnitNumber(s, unit) ==
    LET starts == {i \in 1..Len(s) : UnitMatchAt(s, i, unit) > 0}
    IN  IF starts = {} THEN <<>>
        ELSE LET i == CHOOSE j \in starts : \A k \in starts : j <= k
             IN  <<SubSeq(s, i, UnitMatchAt(s, i, unit) - 1)>>

\* re.findall(r'\d+', text): nums[0], the leftmost maximal run of digits
FindPlainNumber(s) ==
    LET starts == {i \in 1..Len(s) : s[i] \in Digits}
    IN  IF starts = {} THEN <<>>
        ELSE LET i == CHOOSE j \in starts : \A k \in starts : j <= k
             IN  <<SubSeq(s, i, DigitRunEnd(s, i) - 1)>>

\* int(<digits>)
RECURSIVE DigitsToInt(_)
DigitsToInt(ds) ==
    IF ds = <<>> THEN 0
    ELSE DigitsToInt(SubSeq(ds, 1, Len(ds) - 1)) * 10 + DigitValue(ds[Len(ds)])

RECURSIVE Pow10(_)
Pow10(n) == IF n = 0 THEN 1 ELSE 10 * Pow10(n - 1)

\* Mantissas m (within the digit alphabet, up to three integer and two
\* fraction digits) for which the IEEE-754 double product float(m) * 1000
\* lies just below the integer m x 1000, so that int() truncates to one less
\* (values obtained by evaluating the expression in CPython).
InexactKilo ==
    { <<"8",".","1","1">>, <<"8",".","1","2">>, <<"3","2",".","3">>,
      <<"3","2",".","1","2">>, <<"3","2",".","2","3">>, <<"3","2",".","4","1">>,
      <<"3","2",".","4","4">>, <<"3","2",".","4","8">>, <<"1","2","8",".","2">>,
      <<"1","2","8",".","1","4">>, <<"1","2","8",".","2","3">>, <<"1","2","8",".","4","2">>,
      <<"1","2","8",".","4","8">> }

\* The same for float(m) * 1000000.
InexactMega ==
    { <<"4",".","1">>, <<"8",".","2">>, <<"4",".","1","4">>,
      <<"4",".","1","8">>, <<"8",".","1","1">>, <<"8",".","1","2">>,
      <<"8",".","2","8">>, <<"3","2",".","3">>, <<"3","2",".","8">>,
      <<"3","3",".","3">>, <<"3","2",".","1","2">>, <<"3","2",".","2","3">>,
      <<"3","2",".","4","1">>, <<"3","2",".","4","4">>, <<"3","2",".","4","8">>,
      <<"3","3",".","1","2">>, <<"3","3",".","2","3">>, <<"3","3",".","4","1">>,
      <<"3","3",".","4","4">>, <<"3","3",".","4","8">>, <<"1","2","8",".","2">>,
      <<"1","3","1",".","2">>, <<"1","3","2",".","2">>, <<"1","3","3",".","2">>,
      <<"1","3","4",".","2">>, <<"1","2","8",".","1","4">>, <<"1","2","8",".","2","3">>,
      <<"1","2","8",".","4","2">>, <<"1","2","8",".","4","8">>, <<"1","3","1",".","1","4">>,
      <<"1","3","1",".","2","3">>, <<"1","3","1",".","4","2">>, <<"1","3","1",".","4","8">>,
      <<"1","3","2",".","1","4">>, <<"1","3","2",".","2","3">>, <<"1","3","2",".","4","2">>,
      <<"1","3","2",".","4","8">>, <<"1","3","3",".","1","4">>, <<"1","3","3",".","2","3">>,
      <<"1","3","3",".","4","2">>, <<"1","3","3",".","4","8">>, <<"1","3","4",".","1","4">> }

\* m x mult for a mantissa "<int>[.<frac>]" in exact arithmetic, rounded down
ExactProduct(m, mult) ==
    LET dots == {i \in 1..Len(m) : m[i] = "."}
        p    == IF dots = {} THEN Len(m) + 1 ELSE CHOOSE i \in dots : TRUE
        ip   == DigitsToInt(SubSeq(m, 1, p - 1))
        fr   == SubSeq(m, p + 1, Len(m))
    IN  ip * mult + (DigitsToInt(fr) * mult) \div Pow10(Len(fr))

\* int(float(nums[0]) * mult)
FloatProductToInt(m, mult) ==
    LET inexact == IF mult = KiloMultiplier THEN InexactKilo ELSE InexactMega
    IN  IF m \in inexact THEN ExactProduct(m, mult) - 1 ELSE ExactProduct(m, mult)

\* The body of get_count once the aria-label is read: label is NoElem when
\* find_element raised, NoAttr when the element has no aria-label.
ParseCount(label) ==
    IF label = NoElem \/ label = NoAttr \/ label = <<>> THEN 0
    ELSE LET l == LowerLabel(label)
         IN  IF Contains(l, "k")
             THEN LET nums == FindUnitNumber(l, "k")
                  IN  IF nums # <<>> THEN FloatProductToInt(nums[1], KiloMultiplier) ELSE 0
             ELSE IF Contains(l, "m")
             THEN LET nums == FindUnitNumber(l, "m")
                  IN  IF nums # <<>> THEN FloatProductToInt(nums[1], MegaMultiplier) ELSE 0
             ELSE LET nums == FindPlainNumber(RemoveCommas(l))
                  IN  IF nums # <<>> THEN DigitsToInt(nums[1]) ELSE 0

\* get_count(testid): label is the aria-label of the element with that testid
get_count(label) == ParseCount(label)

\* the view count, parsed inline from the analytics link's aria-label
view_count_of(label) == ParseCount(label)

\* get_count of EnhancedTwitterScraper in selenium_scraper_ver3.py: the same
\* statements as in ver4
get_count_v3(label) == ParseCount(label)

\* text.replace('k', '')
RECURSIVE RemoveChar(_, _)
RemoveChar(s, c) ==
    IF s = <<>> THEN <<>>
    ELSE IF Head(s) = c THEN RemoveChar(Tail(s), c)
    ELSE <<Head(s)>> \o RemoveChar(Tail(s), c)

\* ''.join(filter(lambda x: x.isdigit() or x == '.', text))
KeepNumeric(s) == SelectSeq(s, LAMBDA c : c \in Digits \/ c = ".")

\* whether float(number) accepts the text: digits with at most one point
IsFloatText(n) ==
    /\ \E i \in 1..Len(n) : n[i] \in Digits
    /\ Cardinality({i \in 1..Len(n) : n[i] = "."}) <= 1

\* extract_number of ImprovedSeleniumScraper._extract_metrics: the unit is
\* taken from any k or m in the text, the number from all its digits and
\* points; text is NoElem when find_element raised (the metric stays 0)
extract_number(text) ==
    IF text = NoElem \/ text = NoAttr \/ text = <<>> THEN 0
    ELSE LET t == LowerLabel(text)
             multiplier == IF Contains(t, "k") THEN KiloMultiplier
                           ELSE IF Contains(t, "m") THEN MegaMultiplier
                           ELSE 1
             t2 == IF Contains(t, "k") THEN RemoveChar(t, "k")
                   ELSE IF Contains(t, "m") THEN RemoveChar(t, "m")
                   ELSE t
             number == KeepNumeric(t2)
         IN  IF number = <<>> \/ ~IsFloatText(number) THEN 0
             ELSE IF multiplier = 1 THEN ExactProduct(number, 1)
             ELSE FloatProductToInt(number, multiplier)

\* get_count of CookieTwitterScraper._extract_tweets: the first run of
\* digits of the label without its commas
get_count_cookies(label) ==
    IF label = NoElem \/ label = NoAttr \/ label = <<>> THEN 0
    ELSE LET nums == FindPlainNumber(RemoveCommas(label))
         IN  IF nums # <<>> THEN DigitsToInt(nums[1]) ELSE 0


(***************************************************************************)
(* Rendered items.  A tweet element is described by what the driver        *)
(* answers when the code queries it:                                       *)
(*   time      TRUE when the lookup of the time element and of its parent  *)
(*             succeeds, FALSE when it raises                              *)
(*   datetime  the datetime attribute (a day number; 0 stands for None)    *)
(*   href      the parent's href attribute, NoLink when it has none        *)
(*   user      the lines of the User-Name element, NoElem when it raises   *)
(*   text      the tweetText element's text, TextMissing when it raises    *)
(*   reply, retweet, like, analytics   the aria-labels                     *)
(***************************************************************************)
TextMissing == "NoSuchElement"
NoFilter == ""

\* user_text[1].replace('@', '')
StripAt(h) ==
    CASE h = "@nasa" -> "nasa" [] h = "@NASA" -> "NASA" [] h = "@bob" -> "bob"
      [] OTHER -> h

\* str.lower() on a user name
LowerName(n) == IF n = "NASA" THEN "nasa" ELSE n

\* the username lines 308-314 compute
ExtractUsername(tweet_elem) ==
    IF tweet_elem.user = NoElem THEN "unknown"
    ELSE IF Len(tweet_elem.user) > 1 THEN StripAt(tweet_elem.user[2])
    ELSE "unknown"

\* expand_tweet_text: the text after expansion, "" when the element is missing
expand_tweet_text(tweet_elem) ==
    IF tweet_elem.text = TextMissing THEN "" ELSE tweet_elem.text

\* the dict extract_single_tweet builds
TweetData(tweet_elem) ==
    [date          |-> tweet_elem.datetime,
     username      |-> ExtractUsername(tweet_elem),
     content       |-> expand_tweet_text(tweet_elem),
     reply_count   |-> get_count(tweet_elem.reply),
     retweet_count |-> get_count(tweet_elem.retweet),
     like_count    |-> get_count(tweet_elem.like),
     view_count    |-> view_count_of(tweet_elem.analytics),
     tweet_url     |-> tweet_elem.href]

\* extract_single_tweet without the "skip if already collected" test
extract_single_tweet_no_skip(tweet_elem, ids) ==
    IF ~tweet_elem.time THEN [data |-> <<>>, ids |-> ids]
    ELSE [data |-> <<TweetData(tweet_elem)>>, ids |-> ids \cup {tweet_elem.href}]

\* extract_single_tweet(tweet_elem) with collected_tweet_ids = ids:
\* data is <<>> for None and <<tweet_data>> otherwise, ids the set afterwards
extract_single_tweet(tweet_elem, ids) ==
    IF ~tweet_elem.time THEN [data |-> <<>>, ids |-> ids]
    ELSE IF tweet_elem.href \in ids THEN [data |-> <<>>, ids |-> ids]
    ELSE [data |-> <<TweetData(tweet_elem)>>, ids |-> ids \cup {tweet_elem.href}]

\* filter_username and tweet_data['username'].lower() != filter_username.lower()
FilteredOut(tweet_data, filter) ==
    filter # NoFilter /\ LowerName(tweet_data.username) # LowerName(filter)

Item(time, day, href, user) ==
    [time |-> time, datetime |-> day, href |-> href, user |-> user,
     text |-> "hello", reply |-> <<"2">>, retweet |-> NoAttr,
     like |-> <<"1", "K">>, analytics |-> NoElem]

\* The items a feed renders in the collector runs: the tweets A and B of the
\* profile's owner (B also at a moment when its User-Name element cannot be
\* read), the tweet C of another author, an item without time element and
\* an item whose time element has no link around it.
FeedItems ==
    { Item(TRUE, 3, "A", <<"NASA", "@nasa">>),
      Item(TRUE, 2, "B", <<"NASA", "@NASA">>),
      Item(TRUE, 2, "B", NoElem),
      Item(TRUE, 1, "C", <<"Bob", "@bob">>),
      Item(FALSE, 0, NoLink, NoElem),
      Item(TRUE, 4, NoLink, <<"NASA", "@nasa">>) }


(***************************************************************************)
(* State.  The scraper object's fields, the arguments and locals of the    *)
(* running smart_scroll_and_collect, and what the surface was asked.       *)
(*   pc        "idle"    no call running                                   *)
(*             "loop"    at the while test of smart_scroll_and_collect     *)
(*             "items"   inside the for loop over tweet_elements           *)
(*             "return"  after the loop, before the DataFrame is built     *)
(*             "done"    scrape_by_* returned after the loop               *)
(*             "error"   scrape_by_* returned from its except handler      *)
(*             "refused" scrape_by_* returned before collecting            *)
(*   pending   tweet_elements the for loop has not reached yet             *)
(*   scroll_requests / enumerations   calls of window.scrollTo and of      *)
(*             find_elements made by the running session                   *)
(*   offered   identifiers that some processed item carried with a         *)
(*             readable permalink and an author passing the filter         *)
(*   result    the rows of the DataFrame the call returned                 *)
(*   pass_start_len, empty_passes   the length of the record list when the *)
(*             running pass began, and the number of most recent completed *)
(*             passes that left it unchanged                               *)
(*   prev_result, prev_outcome   kept by a caller that calls again: the    *)
(*             table the earlier call returned and how its loop was left   *)
(*   tweet_elem, tweet_data   the argument and the return value of a       *)
(*             single extract_single_tweet call                            *)
(*   label, count   the argument and the return value of a get_count call  *)
(*   kind, tweet_url, max_sub, sub_max_scrolls   which of scrape_tweet_     *)
(*             replies / scrape_tweet_quotes runs ("none" when neither) and *)
(*             its arguments (max_replies or max_quotes is max_sub)         *)
(*   surface   what the navigation of the sub-traversal met: "ok" or        *)
(*             "wall" (the login page instead of the tweet)                 *)
(*   temp_collected_ids, sub_data, sub_scrolls, no_new_count, last_count,   *)
(*             sub_pending   the locals of the running sub-traversal        *)
(*             (sub_data is replies_data or quotes_data)                    *)
(*   sub_return   the list the sub-traversal returned                       *)
(*   max_per_tweet, idx, all_replies, all_quotes   the arguments and locals *)
(*             of scrape_with_engagement_analysis; eng_result its dict      *)
(*   unavailable, idx_at_failure   whether the running analysis met a       *)
(*             surface it could not query, and the record it was at         *)
(*   use_cookies, cookies_file   the scraper's fields of these names        *)
(*   cookie_files   the cookies directory: the blob stored at each path     *)
(*   saved_under    for each account name the cookies last saved under it   *)
(*   jar            the cookies of the browser session                      *)
(*   server_valid   the session tokens the site still accepts               *)
(*   presented      the cookies the last load_cookies passed to add_cookie  *)
(*   load_result, login_result   what the last load_cookies and the last    *)
(*             login_with_cookies_or_manual returned ("none" before)        *)
(*   manual_flows   how often this process opened the manual login page     *)
(*   calls          the cookie and login calls made so far                  *)
(*   account_name   the account_name argument of the last such call         *)
(*   driver_ok      whether, in the last load, the navigation worked and    *)
(*             the browser accepted every cookie                            *)
(*   variant        which scroll-then-extract scraper is running ("none",   *)
(*             "improved", "cookie")                                        *)
(*   rendered       the tweet elements the page holds, in page order        *)
(*   no_change_count, prev_tweet_count   the locals of smart_scroll         *)
(*   current_url    the page the browser shows, as the scrape calls and     *)
(*             the sub-traversals move it                                   *)
(*   original_url   the local of the running sub-traversal                  *)
(*   nav_failed     whether a driver.get of the running sub-traversal       *)
(*             raised                                                       *)
(*   elapsed        seconds since start_time of the running manual wait     *)
(*   polls          check_logged_in calls of the running manual wait        *)
(***************************************************************************)
VARIABLES pc, logged_in, collected_tweet_ids, collected_tweets_data,
          max_tweets, max_scrolls, filter_username,
          scrolls, no_new_tweets_count, last_collected_count,
          pending, scroll_requests, enumerations, offered, result,
          pass_start_len, empty_passes, prev_result, prev_outcome,
          tweet_elem, tweet_data, label, count,
          kind, tweet_url, max_sub, sub_max_scrolls, surface,
          temp_collected_ids, sub_data, sub_scrolls, no_new_count,
          last_count, sub_pending, sub_return,
          max_per_tweet, idx, all_replies, all_quotes, eng_result,
          unavailable, idx_at_failure,
          use_cookies, cookies_file, cookie_files, saved_under, jar,
          server_valid, presented, load_result, login_result,
          manual_flows, calls, driver_ok, account_name,
          variant, rendered, no_change_count, prev_tweet_count,
          current_url, original_url, nav_failed, elapsed, polls

vars == <<pc, logged_in, collected_tweet_ids, collected_tweets_data,
          max_tweets, max_scrolls, filter_username,
          scrolls, no_new_tweets_count, last_collected_count,
          pending, scroll_requests, enumerations, offered, result,
          pass_start_len, empty_passes, prev_result, prev_outcome,
          tweet_elem, tweet_data, label, count,
          kind, tweet_url, max_sub, sub_max_scrolls, surface,
          temp_collected_ids, sub_data, sub_scrolls, no_new_count,
          last_count, sub_pending, sub_return,
          max_per_tweet, idx, all_replies, all_quotes, eng_result,
          unavailable, idx_at_failure,
          use_cookies, cookies_file, cookie_files, saved_under, jar,
          server_valid, presented, load_result, login_result,
          manual_flows, calls, driver_ok, account_name,
          variant, rendered, no_change_count, prev_tweet_count,
          current_url, original_url, nav_failed, elapsed, polls>>

collectorVars == <<logged_in, collected_tweet_ids, collected_tweets_data,
          max_tweets, max_scrolls, filter_username,
          scrolls, no_new_tweets_count, last_collected_count,
          pending, scroll_requests, enumerations, offered, result,
          pass_start_len, empty_passes>>

callVars == <<tweet_elem, tweet_data, label, count>>

callerVars == <<prev_result, prev_outcome>>

scrollVars == <<variant, rendered, no_change_count, prev_tweet_count>>

navVars == <<current_url, original_url, nav_failed>>

waitVars == <<elapsed, polls>>

subVars == <<kind, tweet_url, max_sub, sub_max_scrolls, surface,
             temp_collected_ids, sub_data, sub_scrolls, no_new_count,
             last_count, sub_pending, sub_return>>

engVars == <<max_per_tweet, idx, all_replies, all_quotes, eng_result,
             unavailable, idx_at_failure>>

cookieVars == <<use_cookies, cookies_file, cookie_files, saved_under, jar,
                server_valid, presented, load_result, login_result,
                manual_flows, calls, driver_ok, account_name>>

\* __init__
InitScraper ==
    /\ logged_in = FALSE
    /\ collected_tweet_ids = {}
    /\ collected_tweets_data = <<>>
    /\ max_tweets = 0
    /\ max_scrolls = 0
    /\ filter_username = NoFilter
    /\ scrolls = 0
    /\ no_new_tweets_count = 0
    /\ last_collected_count = 0
    /\ pending = 0
    /\ scroll_requests = 0
    /\ enumerations = 0
    /\ offered = {}
    /\ result = <<>>
    /\ pass_start_len = 0
    /\ empty_passes = 0

NoCall ==
    /\ tweet_elem = Item(FALSE, 0, NoLink, NoElem)
    /\ tweet_data = <<>>
    /\ label = <<>>
    /\ count = 0

NoEarlierCall ==
    /\ prev_result = <<>>
    /\ prev_outcome = "none"

(***************************************************************************)
(* The cookie store.  A cookie is [name, value, expiry]; expiry is <<>>    *)
(* when the cookie has no 'expiry' key and <<t>> otherwise, t in tenths of *)
(* a second (drivers report whole or fractional seconds).                  *)
(***************************************************************************)
Labels == {"default", "alt"}

\* every account name mapped to the same file
CookieFilePath_shared(name) == <<"twitter_cookies_", "default", ".pkl">>

\* os.path.join(self.cookies_dir, f'twitter_cookies_{account_name}.pkl')
CookieFilePath(name) == <<"twitter_cookies_", name, ".pkl">>

Paths == {CookieFilePath(l) : l \in Labels}

\* a path without file, pickle.dump and pickle.load
NoBlob == [format |-> "none", cookies |-> {}]
Pickle(cookies) == [format |-> "pickle", cookies |-> cookies]
Unpickle(blob) == blob.cookies
\* os.path.exists(self.cookies_file)
FileExists(blob) == blob.format # "none"

\* int(cookie['expiry'])
IntExpiry(e) == IF e = <<>> THEN <<>> ELSE <<(e[1] \div 10) * 10>>

\* if 'expiry' in cookie: cookie['expiry'] = int(cookie['expiry'])
FixCookie(c) == [c EXCEPT !.expiry = IntExpiry(@)]

FixAll(cookies) == {FixCookie(c) : c \in cookies}

CookieNames(cookies) == {c.name : c \in cookies}

\* driver.add_cookie for each cookie of cs (cookies of one jar: one per name)
AddAll(j, cs) == {x \in j : x.name \notin CookieNames(cs)} \cup cs

\* load_cookies that reads the file but adds no cookie to the session
LoadCookies_adds_nothing(blob, j, nav_ok, accepted) ==
    IF ~FileExists(blob) \/ ~nav_ok
    THEN [ok |-> FALSE, jar |-> j, presented |-> {}]
    ELSE [ok |-> TRUE, jar |-> j, presented |-> FixAll(Unpickle(blob))]

\* load_cookies on the blob at the account's path: the navigation may raise
\* (nav_ok = FALSE) and the browser accepts the cookies named in accepted,
\* the others raise in add_cookie and are skipped.
LoadCookies(blob, j, nav_ok, accepted) ==
    IF ~FileExists(blob) \/ ~nav_ok
    THEN [ok |-> FALSE, jar |-> j, presented |-> {}]
    ELSE LET cs == FixAll(Unpickle(blob))
         IN  [ok |-> TRUE,
              jar |-> AddAll(j, {c \in cs : c.name \in accepted}),
              presented |-> cs]

\* check_logged_in: the home page shows its column only to a session whose
\* auth cookie the site accepts
check_logged_in(j, valid) ==
    \E c \in j : c.name = "auth_token" /\ c.value \in valid

Tokens == {"s1", "s2"}
AuthExpiries == {<<10>>, <<15>>}
AllNames == {"auth_token", "guest_id"}

\* the cookies the site sets at a manual login with session token t
ServerCookies(t, e) ==
    { [name |-> "auth_token", value |-> t, expiry |-> e],
      [name |-> "guest_id", value |-> "g", expiry |-> <<>>] }

NotSaved == [saved |-> FALSE, cookies |-> {}]

\* a scraper just constructed in a first process, nothing saved yet
FreshProcess ==
    /\ use_cookies = TRUE
    /\ cookies_file = <<>>
    /\ cookie_files = [p \in Paths |-> NoBlob]
    /\ saved_under = [l \in Labels |-> NotSaved]
    /\ jar = {}
    /\ server_valid = {}
    /\ presented = {}
    /\ load_result = "none"
    /\ login_result = "none"
    /\ manual_flows = 0
    /\ calls = 0
    /\ driver_ok = TRUE
    /\ account_name = "default"

\* no sub-traversal and no engagement analysis has run
NoSubTraversal ==
    /\ kind = "none"
    /\ tweet_url = NoLink
    /\ max_sub = 0
    /\ sub_max_scrolls = 0
    /\ surface = "ok"
    /\ temp_collected_ids = {}
    /\ sub_data = <<>>
    /\ sub_scrolls = 0
    /\ no_new_count = 0
    /\ last_count = 0
    /\ sub_pending = 0
    /\ sub_return = <<>>

NoAnalysis ==
    /\ max_per_tweet = 0
    /\ idx = 0
    /\ all_replies = <<>>
    /\ all_quotes = <<>>
    /\ eng_result = <<>>
    /\ unavailable = FALSE
    /\ idx_at_failure = 0

\* no scroll-then-extract scraper has run
NoScrollExtract ==
    /\ variant = "none"
    /\ rendered = <<>>
    /\ no_change_count = 0
    /\ prev_tweet_count = 0

\* the browser has just been started
NoNavigation ==
    /\ current_url = "blank"
    /\ original_url = "blank"
    /\ nav_failed = FALSE

\* no manual login wait has run
NoWait ==
    /\ elapsed = 0
    /\ polls = 0

Init ==
    /\ pc = "idle"
    /\ InitScraper
    /\ NoCall
    /\ NoEarlierCall
    /\ NoSubTraversal
    /\ NoAnalysis
    /\ FreshProcess
    /\ NoScrollExtract
    /\ NoNavigation
    /\ NoWait

\* df['total_engagement'] = like_count + retweet_count + reply_count
WithTotalEngagement(r) ==
    [date |-> r.date, username |-> r.username, content |-> r.content,
     reply_count |-> r.reply_count, retweet_count |-> r.retweet_count,
     like_count |-> r.like_count, view_count |-> r.view_count,
     tweet_url |-> r.tweet_url,
     total_engagement |-> r.like_count + r.retweet_count + r.reply_count]

\* one row put into a list kept in descending date order, NaT (0) last
RECURSIVE InsertByDate(_, _)
InsertByDate(row, rows) ==
    IF rows = <<>> THEN <<row>>
    ELSE IF row.date > Head(rows).date THEN <<row>> \o rows
    ELSE <<Head(rows)>> \o InsertByDate(row, Tail(rows))

\* df.sort_values('date', ascending=False)
RECURSIVE SortByDateDesc(_)
SortByDateDesc(rows) ==
    IF rows = <<>> THEN <<>>
    ELSE InsertByDate(Head(rows), SortByDateDesc(Tail(rows)))

\* the table built from the records after the first one only
ToDataFrame_drops_row(data) ==
    SortByDateDesc([i \in 1..Len(data) - 1 |-> WithTotalEngagement(data[i + 1])])

\* pd.DataFrame(collected_tweets_data) with the derived column, sorted
ToDataFrame(data) ==
    SortByDateDesc([i \in 1..Len(data) |-> WithTotalEngagement(data[i])])

\* The page shown after the navigation of a scrape call: none when the call
\* refuses before it or driver.get raises, the login page when the login
\* wall stays, else the profile or the search page.
LandsOn(filter, allow_no_login, nav, logged, cur) ==
    IF (~logged /\ ~allow_no_login) \/ nav = "raise" THEN cur
    ELSE IF nav = "wall" \/ (nav = "bypassed" /\ ~allow_no_login) THEN "login"
    ELSE IF filter = NoFilter THEN "search" ELSE "profile"

\* the call without the reset of the collection
StartSession_keeps_collection(filter, mt, ms, allow_no_login, nav) ==
    /\ UNCHANGED <<collected_tweet_ids, collected_tweets_data>>
    /\ max_tweets' = mt
    /\ max_scrolls' = ms
    /\ filter_username' = filter
    /\ scrolls' = 0
    /\ no_new_tweets_count' = 0
    /\ last_collected_count' = 0
    /\ pending' = 0
    /\ scroll_requests' = 0
    /\ enumerations' = 0
    /\ offered' = {}
    /\ result' = <<>>
    /\ pass_start_len' = 0
    /\ empty_passes' = 0
    /\ pc' = IF ~logged_in /\ ~allow_no_login THEN "refused"
             ELSE IF nav = "raise" THEN "error"
             ELSE IF nav = "wall" \/ (nav = "bypassed" /\ ~allow_no_login)
                  THEN "refused"
             ELSE "loop"
    /\ current_url' = LandsOn(filter, allow_no_login, nav, logged_in, current_url)
    /\ UNCHANGED <<logged_in, callVars, subVars, original_url, nav_failed>>

\* The part of scrape_by_username / scrape_by_search before the loop: reset
\* the collection, check the login state, navigate, check for the login wall.
\*   nav: "ok", "wall" (login wall that the refresh does not remove),
\*        "bypassed" (login wall gone after the refresh), "raise" (driver.get
\*        raised)
StartSession(filter, mt, ms, allow_no_login, nav) ==
    /\ collected_tweet_ids' = {}
    /\ collected_tweets_data' = <<>>
    /\ max_tweets' = mt
    /\ max_scrolls' = ms
    /\ filter_username' = filter
    /\ scrolls' = 0
    /\ no_new_tweets_count' = 0
    /\ last_collected_count' = 0
    /\ pending' = 0
    /\ scroll_requests' = 0
    /\ enumerations' = 0
    /\ offered' = {}
    /\ result' = <<>>
    /\ pass_start_len' = 0
    /\ empty_passes' = 0
    /\ pc' = IF ~logged_in /\ ~allow_no_login THEN "refused"
             ELSE IF nav = "raise" THEN "error"
             ELSE IF nav = "wall" \/ (nav = "bypassed" /\ ~allow_no_login)
                  THEN "refused"
             ELSE "loop"
    /\ current_url' = LandsOn(filter, allow_no_login, nav, logged_in, current_url)
    /\ UNCHANGED <<logged_in, callVars, subVars, original_url, nav_failed>>

NavOutcomes == {"ok", "wall", "bypassed", "raise"}

scrape_by_username ==
    /\ pc = "idle"
    /\ UNCHANGED <<callerVars, scrollVars, waitVars, cookieVars, engVars>>
    /\ \E username \in {"nasa", "@NASA"}, mt \in 0..MaxTweetsBound,
       ms \in 0..MaxScrollsBound, allow \in BOOLEAN, nav \in NavOutcomes :
        StartSession(StripAt(username), mt, ms, allow, nav)

scrape_by_search ==
    /\ pc = "idle"
    /\ UNCHANGED <<callerVars, scrollVars, waitVars, cookieVars, engVars>>
    /\ \E mt \in 0..MaxTweetsBound, ms \in 0..MaxScrollsBound,
       allow \in BOOLEAN, nav \in NavOutcomes :
        StartSession(NoFilter, mt, ms, allow, nav)

\* login_with_cookies_or_manual succeeding (saved cookies or manual login)
login_with_cookies_or_manual ==
    /\ pc = "idle"
    /\ ~logged_in
    /\ logged_in' = TRUE
    /\ UNCHANGED <<pc, collected_tweet_ids, collected_tweets_data,
                   max_tweets, max_scrolls, filter_username, scrolls,
                   no_new_tweets_count, last_collected_count, pending,
                   scroll_requests, enumerations, offered, result,
                   pass_start_len, empty_passes, callVars, callerVars, scrollVars, navVars, waitVars, cookieVars, subVars, engVars>>

\* the for loop's break test off by one
TargetReached_late(data, mt) == Len(data) > mt

\* len(self.collected_tweets_data) >= max_tweets
TargetReached(data, mt) == Len(data) >= mt

\* the while test without its bound on scrolls
LoopGuard_unbounded(s, ms, data, mt) == Len(data) < mt

\* the while test admitting one pass too many
LoopGuard_inclusive(s, ms, data, mt) == s <= ms /\ Len(data) < mt

\* scrolls < max_scrolls and len(self.collected_tweets_data) < max_tweets
LoopGuard(s, ms, data, mt) == s < ms /\ Len(data) < mt

\* The while test and find_elements: n items are visible, or the driver
\* raises and the exception leaves through the caller's handler.
Enumerate ==
    /\ pc = "loop"
    /\ IF LoopGuard(scrolls, max_scrolls, collected_tweets_data, max_tweets)
       THEN \/ \E n \in 0..MaxVisible :
                 /\ pending' = n
                 /\ enumerations' = enumerations + 1
                 /\ pass_start_len' = Len(collected_tweets_data)
                 /\ pc' = "items"
                 /\ UNCHANGED result
            \/ /\ pc' = "error"
               /\ result' = <<>>
               /\ UNCHANGED <<pending, enumerations, pass_start_len>>
       ELSE /\ pc' = "return"
            /\ UNCHANGED <<pending, enumerations, result, pass_start_len>>
    /\ UNCHANGED <<logged_in, collected_tweet_ids, collected_tweets_data,
                   max_tweets, max_scrolls, filter_username, scrolls,
                   no_new_tweets_count, last_collected_count,
                   scroll_requests, offered, empty_passes, callVars,
                   callerVars, scrollVars, navVars, waitVars, cookieVars, subVars, engVars>>

\* identifiers of items that are extractable and pass the filter predicate
Offers(elem, filter) ==
    IF elem.time /\ elem.href # NoLink
          /\ ~FilteredOut(TweetData(elem), filter)
    THEN {elem.href} ELSE {}

\* the new record put in front of the list
AppendRecord_front(data, rec) == <<rec>> \o data

\* self.collected_tweets_data.append(tweet_data)
AppendRecord(data, rec) == Append(data, rec)

\* One iteration of "for elem in elements".
ProcessItem ==
    /\ pc = "items"
    /\ pending > 0
    /\ IF TargetReached(collected_tweets_data, max_tweets)
       THEN /\ pending' = 0
            /\ UNCHANGED <<collected_tweet_ids, collected_tweets_data, offered>>
       ELSE \E elem \in FeedItems :
              LET out == extract_single_tweet(elem, collected_tweet_ids)
              IN  /\ collected_tweet_ids' = out.ids
                  /\ collected_tweets_data' =
                        IF out.data # <<>> /\ ~FilteredOut(out.data[1], filter_username)
                        THEN AppendRecord(collected_tweets_data, out.data[1])
                        ELSE collected_tweets_data
                  /\ offered' = offered \cup Offers(elem, filter_username)
                  /\ pending' = pending - 1
    /\ UNCHANGED <<pc, logged_in, max_tweets, max_scrolls, filter_username,
                   scrolls, no_new_tweets_count, last_collected_count,
                   scroll_requests, enumerations, result, pass_start_len,
                   empty_passes, callVars, callerVars, scrollVars, navVars, waitVars, cookieVars, subVars, engVars>>

\* the counter kept when the pass added a record
StallAfterPass_never_resets(current_count, last, stall) ==
    IF current_count = last THEN stall + 1 ELSE stall

\* no_new_tweets_count after the check of lines 423-427
StallAfterPass(current_count, last, stall) ==
    IF current_count = last THEN stall + 1 ELSE 0

\* the stall test off by one
StallLimitReached_late(stall) == stall > stall_limit

\* no_new_tweets_count >= 3
StallLimitReached(stall) == stall >= stall_limit

\* scrolls += 1
NextScrolls(s) == s + 1

\* The rest of the loop body after the for loop: the stall check, the break,
\* the scroll (which may raise) and scrolls += 1.
EndPass ==
    /\ pc = "items"
    /\ pending = 0
    /\ LET current_count == Len(collected_tweets_data)
           stall == StallAfterPass(current_count, last_collected_count,
                                   no_new_tweets_count)
       IN  /\ no_new_tweets_count' = stall
           /\ empty_passes' = IF current_count = pass_start_len
                              THEN empty_passes + 1 ELSE 0
           /\ IF StallLimitReached(stall)
              THEN /\ pc' = "return"
                   /\ UNCHANGED <<last_collected_count, scroll_requests, scrolls, result>>
              ELSE /\ last_collected_count' = current_count
                   /\ scroll_requests' = scroll_requests + 1
                   /\ \/ /\ scrolls' = NextScrolls(scrolls)
                         /\ pc' = "loop"
                         /\ UNCHANGED result
                      \/ /\ pc' = "error"
                         /\ result' = <<>>
                         /\ UNCHANGED scrolls
    /\ UNCHANGED <<logged_in, collected_tweet_ids, collected_tweets_data,
                   max_tweets, max_scrolls, filter_username, pending,
                   enumerations, offered, pass_start_len, callVars,
                   callerVars, scrollVars, navVars, waitVars, cookieVars, subVars, engVars>>

\* After the loop: smart_scroll_and_collect returns and the caller builds,
\* sorts and returns the DataFrame (empty when nothing was collected).
Return ==
    /\ pc = "return"
    /\ result' = ToDataFrame(collected_tweets_data)
    /\ pc' = "done"
    /\ UNCHANGED <<logged_in, collected_tweet_ids, collected_tweets_data,
                   max_tweets, max_scrolls, filter_username, scrolls,
                   no_new_tweets_count, last_collected_count, pending,
                   scroll_requests, enumerations, offered, pass_start_len,
                   empty_passes, callVars, callerVars, scrollVars, navVars, waitVars, cookieVars, subVars, engVars>>

Next ==
    \/ login_with_cookies_or_manual
    \/ scrape_by_username
    \/ scrape_by_search
    \/ Enumerate
    \/ ProcessItem
    \/ EndPass
    \/ Return

Spec == Init /\ [][Next]_vars

\* The driver answers every call and every sleep ends, so a running call
\* always takes its next step.
FairSpec == Spec /\ WF_vars(Next)

(***************************************************************************)
(* A caller that scrapes the same profile twice with the same arguments    *)
(* and keeps the first table: the runs in which two sessions can be        *)
(* compared.                                                               *)
(***************************************************************************)
\* How the loop was left, read from the locals at the return: by the break
\* of the stall test, or by the while test with the scrolls used up, or by
\* the while test with the target reached.
Outcome ==
    IF StallLimitReached(no_new_tweets_count) THEN "ExhaustedFeed"
    ELSE IF scrolls >= max_scrolls THEN "PassLimitReached"
    ELSE "TargetReached"

FirstCall ==
    /\ pc = "idle"
    /\ UNCHANGED <<callerVars, scrollVars, waitVars, cookieVars, engVars>>
    /\ StartSession("nasa", PairTweets, MaxScrollsBound, TRUE, "ok")

CallAgain ==
    /\ pc = "done"
    /\ prev_outcome = "none"
    /\ prev_result' = result
    /\ prev_outcome' = Outcome
    /\ UNCHANGED <<engVars, cookieVars, scrollVars, waitVars>>
    /\ StartSession(filter_username, max_tweets, max_scrolls, TRUE, "ok")

PairNext ==
    \/ FirstCall
    \/ CallAgain
    \/ Enumerate
    \/ ProcessItem
    \/ EndPass
    \/ Return

PairSpec == Init /\ [][PairNext]_vars


(***************************************************************************)
(* Single calls of get_count and of extract_single_tweet on bounded        *)
(* inputs.                                                                 *)
(***************************************************************************)
RECURSIVE DigitStrings(_)
DigitStrings(n) ==
    IF n = 0 THEN {<<>>}
    ELSE {<<d>> \o r : d \in Digits, r \in DigitStrings(n - 1)}

IntParts == UNION {DigitStrings(n) : n \in 1..MaxIntDigits}
FracParts == {<<>>} \cup {<<".">> \o f : f \in UNION {DigitStrings(n) : n \in 0..MaxFracDigits}}
Units == {<<"K">>, <<"M">>, <<"k">>}
Words == {<<>>, <<" ", "L", "i", "k", "e", "s">>,
          <<" ", "R", "e", "p", "l", "i", "e", "s">>}

\* Labels the page shows: "<int>[ words]", "<int>[.<frac>]<unit>[ words]",
\* an integer with a thousands comma, a label without a number, an empty
\* label, an element without aria-label and a missing element.
LabelInputs ==
    {i \o w : i \in IntParts, w \in Words}
    \cup {i \o f \o u \o w : i \in IntParts, f \in FracParts, u \in Units, w \in Words}
    \cup {<<"1", ",", "2", "3", "4">> \o w : w \in Words}
    \cup {<<>>, NoAttr, NoElem, <<"L", "i", "k", "e">>}

CountInit ==
    /\ pc = "get_count"
    /\ InitScraper
    /\ NoEarlierCall
    /\ tweet_elem = Item(FALSE, 0, NoLink, NoElem)
    /\ tweet_data = <<>>
    /\ label \in LabelInputs
    /\ count = 0
    /\ NoSubTraversal
    /\ NoAnalysis
    /\ FreshProcess
    /\ NoScrollExtract
    /\ NoNavigation
    /\ NoWait

GetCountCall ==
    /\ pc = "get_count"
    /\ count' = get_count(label)
    /\ pc' = "counted"
    /\ UNCHANGED <<collectorVars, callerVars, scrollVars, navVars, waitVars, cookieVars, subVars, engVars,
                   tweet_elem, tweet_data, label>>

CountSpec == CountInit /\ [][GetCountCall]_vars

ElemLabels == {NoElem, NoAttr, <<"2">>}

\* Elements with every combination of obtainable and unobtainable fields.
AllItems ==
    [time : BOOLEAN, datetime : {1}, href : {"A", NoLink},
     user : {NoElem, <<"NASA", "@nasa">>}, text : {TextMissing, "hello"},
     reply : ElemLabels, retweet : ElemLabels, like : ElemLabels,
     analytics : ElemLabels]

ExtractInit ==
    /\ pc = "extract"
    /\ logged_in = FALSE
    /\ collected_tweet_ids \in SUBSET {"A", NoLink}
    /\ collected_tweets_data = <<>>
    /\ max_tweets = 0
    /\ max_scrolls = 0
    /\ filter_username = NoFilter
    /\ scrolls = 0
    /\ no_new_tweets_count = 0
    /\ last_collected_count = 0
    /\ pending = 0
    /\ scroll_requests = 0
    /\ enumerations = 0
    /\ offered = {}
    /\ result = <<>>
    /\ pass_start_len = 0
    /\ empty_passes = 0
    /\ NoEarlierCall
    /\ tweet_elem \in AllItems
    /\ tweet_data = <<>>
    /\ label = <<>>
    /\ count = 0
    /\ NoSubTraversal
    /\ NoAnalysis
    /\ FreshProcess
    /\ NoScrollExtract
    /\ NoNavigation
    /\ NoWait

ExtractCall ==
    /\ pc = "extract"
    /\ LET out == extract_single_tweet(tweet_elem, collected_tweet_ids)
       IN  /\ tweet_data' = out.data
           /\ collected_tweet_ids' = out.ids
    /\ pc' = "extracted"
    /\ UNCHANGED <<logged_in, collected_tweets_data, max_tweets, max_scrolls,
                   filter_username, scrolls, no_new_tweets_count,
                   last_collected_count, pending, scroll_requests,
                   enumerations, offered, result, pass_start_len,
                   empty_passes, callerVars, scrollVars, navVars, waitVars, cookieVars, subVars, engVars,
                   tweet_elem, label, count>>

ExtractSpec == ExtractInit /\ [][ExtractCall]_vars

(***************************************************************************)
(* scrape_tweet_replies and scrape_tweet_quotes: the sub-traversal of one  *)
(* tweet's reply page or quote page.                                       *)
(*   pc        "sub_loop"     at the while test of the sub-traversal       *)
(*             "sub_items"    inside its for loop                          *)
(*             "sub_restore"  after the loop, before going back            *)
(*             "sub_done"     the sub-traversal returned a list            *)
(*             "sub_raised"   an exception left the sub-traversal          *)
(***************************************************************************)
\* The articles a reply page or quote page renders: two tweets of other
\* authors, the parent tweet itself, an item without time element and an
\* item whose time element has no link around it.
SubItems(parent) ==
    { Item(TRUE, 1, "R1", <<"Bob", "@bob">>),
      Item(TRUE, 2, "R2", <<"Bob", "@bob">>),
      Item(TRUE, 3, parent, <<"NASA", "@nasa">>),
      Item(FALSE, 0, NoLink, NoElem),
      Item(TRUE, 4, NoLink, <<"Bob", "@bob">>) }

\* the record annotated with its own link instead of the parent's
Annotate_own_url(k, rec, parent) ==
    IF k = "replies" THEN rec @@ ("reply_to" :> rec.tweet_url)
    ELSE rec @@ ("quote_of" :> rec.tweet_url)

\* reply_data['reply_to'] = tweet_url  /  quote_data['quote_of'] = tweet_url
Annotate(k, rec, parent) ==
    IF k = "replies" THEN rec @@ ("reply_to" :> parent)
    ELSE rec @@ ("quote_of" :> parent)

\* the "continue" test after the link is read:
\*   replies: reply_url == tweet_url or reply_url in temp_collected_ids
\*   quotes:  quote_url in temp_collected_ids
SubSkips(k, url, parent, temp) ==
    IF k = "replies" THEN url = parent \/ url \in temp
    ELSE url \in temp

\* extract_single_tweet on an element that may have gone stale since the
\* caller looked at it: its own find_element then raises and it returns None
\* before the identifier is added
ExtractOrStale(elem, ids, stale) ==
    IF stale THEN [data |-> <<>>, ids |-> ids]
    ELSE extract_single_tweet(elem, ids)

\* the page a sub-traversal opens: tweet_url for replies,
\* f"{tweet_url}/retweets/with_comments" for quotes
SubPage(k) == IF k = "replies" THEN "status" ELSE "with_comments"

\* driver.get lands on its url or raises
GetOutcomes == {"ok", "raise"}

\* window.history.back() lands on the original page, on another page, does
\* not move, or raises
BackOutcomes == {"original", "other", "stays", "raise"}

\* where window.history.back() leaves the browser
AfterBack(back, cur, orig) ==
    CASE back = "original" -> orig
      [] back = "other"    -> "elsewhere"
      [] OTHER             -> cur

\* the re-navigation left out
NeedsNavigation_never(cur, orig) == FALSE

\* if self.driver.current_url != original_url
NeedsNavigation(cur, orig) == cur # orig

\* what the browser does during one restore
RestoreOutcomes ==
    [back : BackOutcomes, get1 : GetOutcomes, get2 : GetOutcomes,
     get3 : GetOutcomes, scroll1 : BOOLEAN, scroll2 : BOOLEAN]

\* The code after the loop, from cur with the browser behaving as env:
\*   try:    history.back; get(original_url) if the url differs (get1);
\*           scrollTo (scroll1)
\*   except: get(original_url) (get2); scrollTo (scroll2)
\*   an exception of the except block reaches the handler of the
\*   sub-traversal: get(original_url) (get3) in try/except pass
\* url is the page shown at return, failed whether a driver.get raised,
\* handled whether the handler returned [] instead of the list.
RestoreLocation(env, cur, orig) ==
    LET landed == AfterBack(env.back, cur, orig)
        nav1   == env.back # "raise" /\ NeedsNavigation(landed, orig)
        at1    == IF nav1 /\ env.get1 = "ok" THEN orig ELSE landed
        fail1  == nav1 /\ env.get1 = "raise"
        try_ok == env.back # "raise" /\ ~fail1 /\ env.scroll1
    IN  IF try_ok
        THEN [url |-> at1, failed |-> FALSE, handled |-> FALSE]
        ELSE IF env.get2 = "ok" /\ env.scroll2
        THEN [url |-> orig, failed |-> fail1, handled |-> FALSE]
        ELSE IF env.get2 = "ok"
        THEN [url |-> orig, failed |-> fail1 \/ env.get3 = "raise",
              handled |-> TRUE]
        ELSE [url |-> IF env.get3 = "ok" THEN orig ELSE at1,
              failed |-> TRUE, handled |-> TRUE]

\* the swapped set left in place
RestoreIds_keeps_swapped(original_ids, after) == after

\* self.collected_tweet_ids = original_ids, after extract_single_tweet ran
\* on the set that replaced it
RestoreIds(original_ids, after) == original_ids

\* The except handler of the sub-traversal: it tries to go back
\* (driver.get(original_url) behaving as get) and returns [] whether or not
\* that works.
SubHandler(get) ==
    /\ sub_return' = <<>>
    /\ pc' = "sub_done"
    /\ current_url' = IF get = "ok" THEN original_url ELSE current_url
    /\ nav_failed' = (nav_failed \/ get = "raise")
    /\ UNCHANGED original_url

\* The sub-traversal up to its loop: it reads the current url and offset
\* (outside the try), navigates and resets its locals.
\*   nav: "ok", "wall" (the login page is shown instead), "raise" (driver.get
\*        raised), "dead" (reading the current url raised)
SubStart(k, url, mx, ms, nav) ==
    /\ kind' = k
    /\ tweet_url' = url
    /\ max_sub' = mx
    /\ sub_max_scrolls' = ms
    /\ surface' = IF nav = "wall" THEN "wall" ELSE "ok"
    /\ temp_collected_ids' = {}
    /\ sub_data' = <<>>
    /\ sub_scrolls' = 0
    /\ no_new_count' = 0
    /\ last_count' = 0
    /\ sub_pending' = 0
    /\ sub_return' = <<>>
    /\ pc' = CASE nav = "dead"  -> "sub_raised"
               [] nav = "raise" -> "sub_done"
               [] OTHER         -> "sub_loop"
    /\ original_url' = IF nav = "dead" THEN original_url ELSE current_url
    /\ current_url' = CASE nav = "ok"   -> SubPage(k)
                        [] nav = "wall" -> "login"
                        [] OTHER        -> current_url
    /\ nav_failed' = (nav = "raise")
    /\ UNCHANGED <<collectorVars, callVars, callerVars, scrollVars, waitVars, cookieVars>>

SubNavOutcomes == {"ok", "wall", "raise", "dead"}

\* The while test and find_elements of the sub-traversal.
SubEnumerate ==
    /\ pc = "sub_loop"
    /\ IF LoopGuard(sub_scrolls, sub_max_scrolls, sub_data, max_sub)
       THEN \/ \E n \in 0..(IF surface = "wall" THEN 0 ELSE MaxVisible) :
                 /\ sub_pending' = n
                 /\ pc' = "sub_items"
                 /\ UNCHANGED <<sub_return, navVars>>
            \/ /\ \E get \in GetOutcomes : SubHandler(get)
               /\ UNCHANGED sub_pending
       ELSE /\ pc' = "sub_restore"
            /\ UNCHANGED <<sub_pending, sub_return, navVars>>
    /\ UNCHANGED <<kind, tweet_url, max_sub, sub_max_scrolls, surface,
                   temp_collected_ids, sub_data, sub_scrolls, no_new_count,
                   last_count, collectorVars, callVars, callerVars, scrollVars, waitVars, cookieVars, engVars>>

\* One iteration of the sub-traversal's for loop.  extract_single_tweet runs
\* with collected_tweet_ids swapped for an empty set, which is put back; the
\* element may go stale between the link being read here and the extraction.
SubProcessItem ==
    /\ pc = "sub_items"
    /\ sub_pending > 0
    /\ IF TargetReached(sub_data, max_sub)
       THEN /\ sub_pending' = 0
            /\ UNCHANGED <<temp_collected_ids, sub_data, collected_tweet_ids>>
       ELSE \E elem \in SubItems(tweet_url), stale \in BOOLEAN :
              /\ sub_pending' = sub_pending - 1
              /\ IF ~elem.time \/ SubSkips(kind, elem.href, tweet_url, temp_collected_ids)
                 THEN UNCHANGED <<temp_collected_ids, sub_data, collected_tweet_ids>>
                 ELSE LET original_ids == collected_tweet_ids
                          out == ExtractOrStale(elem, {}, stale)
                      IN  /\ temp_collected_ids' = temp_collected_ids \cup {elem.href}
                          /\ collected_tweet_ids' = RestoreIds(original_ids, out.ids)
                          /\ sub_data' =
                                IF out.data # <<>>
                                THEN Append(sub_data, Annotate(kind, out.data[1], tweet_url))
                                ELSE sub_data
    /\ UNCHANGED <<pc, kind, tweet_url, max_sub, sub_max_scrolls, surface,
                   sub_scrolls, no_new_count, last_count, sub_return,
                   logged_in, collected_tweets_data, max_tweets, max_scrolls,
                   filter_username, scrolls, no_new_tweets_count,
                   last_collected_count, pending, scroll_requests,
                   enumerations, offered, result, pass_start_len,
                   empty_passes, callVars, callerVars, scrollVars, navVars, waitVars, cookieVars, engVars>>

\* The rest of the sub-traversal's loop body: the progress check, the break,
\* the scroll (which may raise) and scrolls += 1.
SubEndPass ==
    /\ pc = "sub_items"
    /\ sub_pending = 0
    /\ LET current_count == Len(sub_data)
           stall == StallAfterPass(current_count, last_count, no_new_count)
       IN  /\ no_new_count' = stall
           /\ IF StallLimitReached(stall)
              THEN /\ pc' = "sub_restore"
                   /\ UNCHANGED <<last_count, sub_scrolls, sub_return, navVars>>
              ELSE /\ last_count' = current_count
                   /\ \/ /\ sub_scrolls' = NextScrolls(sub_scrolls)
                         /\ pc' = "sub_loop"
                         /\ UNCHANGED <<sub_return, navVars>>
                      \/ /\ \E get \in GetOutcomes : SubHandler(get)
                         /\ UNCHANGED sub_scrolls
    /\ UNCHANGED <<kind, tweet_url, max_sub, sub_max_scrolls, surface,
                   temp_collected_ids, sub_data, sub_pending,
                   collectorVars, callVars, callerVars, scrollVars, waitVars, cookieVars, engVars>>

\* After the loop: history.back, re-navigation and scroll restore.  When
\* they work, or when they raise and the fallback works, the list is
\* returned; when the fallback raises too the exception reaches the handler
\* of the sub-traversal, which returns [].
SubRestore ==
    /\ pc = "sub_restore"
    /\ \E env \in RestoreOutcomes :
         LET r == RestoreLocation(env, current_url, original_url)
         IN  /\ current_url' = r.url
             /\ nav_failed' = (nav_failed \/ r.failed)
             /\ sub_return' = IF r.handled THEN <<>> ELSE sub_data
    /\ pc' = "sub_done"
    /\ UNCHANGED <<kind, tweet_url, max_sub, sub_max_scrolls, surface,
                   temp_collected_ids, sub_data, sub_scrolls, no_new_count,
                   last_count, sub_pending, original_url,
                   collectorVars, callVars, callerVars, scrollVars, waitVars, cookieVars, engVars>>

scrape_tweet_replies ==
    /\ pc = "idle"
    /\ UNCHANGED engVars
    /\ \E mx \in 0..MaxSubBound, ms \in 0..MaxSubScrolls, nav \in SubNavOutcomes :
         SubStart("replies", "A", mx, ms, nav)

scrape_tweet_quotes ==
    /\ pc = "idle"
    /\ UNCHANGED engVars
    /\ \E mx \in 0..MaxSubBound, ms \in 0..MaxSubScrolls, nav \in SubNavOutcomes :
         SubStart("quotes", "A", mx, ms, nav)

SubNext ==
    \/ scrape_tweet_replies
    \/ scrape_tweet_quotes
    \/ SubEnumerate
    \/ SubProcessItem
    \/ SubEndPass
    \/ SubRestore

SubSpec == Init /\ [][SubNext]_vars

\* the collections an earlier scrape_by_username of the same scraper leaves
\* behind (scrape_with_engagement_analysis calls the sub-traversals on such
\* a scraper)
EarlierCollections ==
    { <<>>,
      <<TweetData(Item(TRUE, 1, "A", <<"NASA", "@nasa">>))>>,
      <<TweetData(Item(TRUE, 1, "A", <<"NASA", "@nasa">>)),
        TweetData(Item(TRUE, 2, "B", <<"NASA", "@nasa">>))>> }

\* A scraper on which a sub-traversal is about to be called: fresh, or after
\* an earlier scrape call that filled the collection and left the browser on
\* the profile or the search page.
FrameInit ==
    /\ pc = "idle"
    /\ logged_in = FALSE
    /\ collected_tweets_data \in EarlierCollections
    /\ collected_tweet_ids =
          {collected_tweets_data[i].tweet_url : i \in 1..Len(collected_tweets_data)}
    /\ max_tweets = 0
    /\ max_scrolls = 0
    /\ filter_username = NoFilter
    /\ scrolls = 0
    /\ no_new_tweets_count = 0
    /\ last_collected_count = 0
    /\ pending = 0
    /\ scroll_requests = 0
    /\ enumerations = 0
    /\ offered = {}
    /\ result = <<>>
    /\ pass_start_len = 0
    /\ empty_passes = 0
    /\ NoCall
    /\ NoEarlierCall
    /\ NoSubTraversal
    /\ NoAnalysis
    /\ FreshProcess
    /\ NoScrollExtract
    /\ current_url \in IF collected_tweets_data = <<>> THEN {"blank"}
                       ELSE {"profile", "search"}
    /\ original_url = "blank"
    /\ nav_failed = FALSE
    /\ NoWait

FrameSpec == FrameInit /\ [][SubNext]_vars

(***************************************************************************)
(* smart_scroll_and_collect and the loop of scrape_tweet_replies run side  *)
(* by side on the same passes: in every step both are given the same       *)
(* visible items with the same extraction outcomes.  The collector's       *)
(* state is in its own variables, the reply loop's in those of the         *)
(* sub-traversal.                                                          *)
(*   pc        "eq_loop"   both at their while test                        *)
(*             "eq_items"  both inside their for loop                      *)
(*             "eq_done"   both left their loop after the same pass        *)
(*             "eq_apart"  one left its loop, the other goes on            *)
(***************************************************************************)
eqFrame == <<logged_in, filter_username, scroll_requests, enumerations,
             offered, result, pass_start_len, empty_passes, surface,
             sub_return, callVars, callerVars, scrollVars, navVars, waitVars, cookieVars, engVars>>

\* the collector's filter test (lines 415-416) with a filter on the
\* identifier: the record of the parent tweet is not appended
ExcludedByFilter(rec, parent) == rec.tweet_url = parent

\* both are called with the same limits on the page of tweet "A"
BothStart ==
    /\ pc = "idle"
    /\ \E mx \in 0..MaxSubBound, ms \in 0..MaxSubScrolls :
         /\ max_tweets' = mx
         /\ max_scrolls' = ms
         /\ max_sub' = mx
         /\ sub_max_scrolls' = ms
    /\ kind' = "replies"
    /\ tweet_url' = "A"
    /\ collected_tweet_ids' = {}
    /\ collected_tweets_data' = <<>>
    /\ scrolls' = 0
    /\ no_new_tweets_count' = 0
    /\ last_collected_count' = 0
    /\ pending' = 0
    /\ temp_collected_ids' = {}
    /\ sub_data' = <<>>
    /\ sub_scrolls' = 0
    /\ no_new_count' = 0
    /\ last_count' = 0
    /\ sub_pending' = 0
    /\ pc' = "eq_loop"
    /\ UNCHANGED eqFrame

\* the two while tests, and find_elements returning the same n items
BothEnumerate ==
    /\ pc = "eq_loop"
    /\ LET goes == LoopGuard(scrolls, max_scrolls, collected_tweets_data, max_tweets)
           sub_goes == LoopGuard(sub_scrolls, sub_max_scrolls, sub_data, max_sub)
       IN  IF goes /\ sub_goes
           THEN \E n \in 0..MaxVisible :
                  /\ pending' = n
                  /\ sub_pending' = n
                  /\ pc' = "eq_items"
           ELSE /\ pc' = IF goes = sub_goes THEN "eq_done" ELSE "eq_apart"
                /\ UNCHANGED <<pending, sub_pending>>
    /\ UNCHANGED <<collected_tweet_ids, collected_tweets_data, max_tweets,
                   max_scrolls, scrolls, no_new_tweets_count,
                   last_collected_count, kind, tweet_url, max_sub,
                   sub_max_scrolls, temp_collected_ids, sub_data,
                   sub_scrolls, no_new_count, last_count, eqFrame>>

\* one iteration of each for loop on the same element, which goes stale
\* before the extraction or does not
BothProcessItem ==
    /\ pc = "eq_items"
    /\ pending > 0 \/ sub_pending > 0
    /\ \E elem \in SubItems(tweet_url), stale \in BOOLEAN :
         /\ IF pending = 0
            THEN UNCHANGED <<pending, collected_tweet_ids, collected_tweets_data>>
            ELSE IF TargetReached(collected_tweets_data, max_tweets)
            THEN /\ pending' = 0
                 /\ UNCHANGED <<collected_tweet_ids, collected_tweets_data>>
            ELSE LET out == ExtractOrStale(elem, collected_tweet_ids, stale)
                 IN  /\ pending' = pending - 1
                     /\ collected_tweet_ids' = out.ids
                     /\ collected_tweets_data' =
                           IF out.data # <<>> /\ ~ExcludedByFilter(out.data[1], tweet_url)
                           THEN AppendRecord(collected_tweets_data, out.data[1])
                           ELSE collected_tweets_data
         /\ IF sub_pending = 0
            THEN UNCHANGED <<sub_pending, temp_collected_ids, sub_data>>
            ELSE IF TargetReached(sub_data, max_sub)
            THEN /\ sub_pending' = 0
                 /\ UNCHANGED <<temp_collected_ids, sub_data>>
            ELSE /\ sub_pending' = sub_pending - 1
                 /\ IF ~elem.time \/ SubSkips(kind, elem.href, tweet_url, temp_collected_ids)
                    THEN UNCHANGED <<temp_collected_ids, sub_data>>
                    ELSE LET out == ExtractOrStale(elem, {}, stale)
                         IN  /\ temp_collected_ids' = temp_collected_ids \cup {elem.href}
                             /\ sub_data' =
                                   IF out.data # <<>>
                                   THEN Append(sub_data, Annotate(kind, out.data[1], tweet_url))
                                   ELSE sub_data
    /\ UNCHANGED <<pc, max_tweets, max_scrolls, scrolls, no_new_tweets_count,
                   last_collected_count, kind, tweet_url, max_sub,
                   sub_max_scrolls, sub_scrolls, no_new_count, last_count,
                   eqFrame>>

\* the two progress checks, breaks and scrolls
BothEndPass ==
    /\ pc = "eq_items"
    /\ pending = 0
    /\ sub_pending = 0
    /\ LET current_count == Len(collected_tweets_data)
           stall == StallAfterPass(current_count, last_collected_count,
                                   no_new_tweets_count)
           sub_count == Len(sub_data)
           sub_stall == StallAfterPass(sub_count, last_count, no_new_count)
           breaks == StallLimitReached(stall)
           sub_breaks == StallLimitReached(sub_stall)
       IN  /\ no_new_tweets_count' = stall
           /\ no_new_count' = sub_stall
           /\ IF breaks
              THEN UNCHANGED <<last_collected_count, scrolls>>
              ELSE /\ last_collected_count' = current_count
                   /\ scrolls' = NextScrolls(scrolls)
           /\ IF sub_breaks
              THEN UNCHANGED <<last_count, sub_scrolls>>
              ELSE /\ last_count' = sub_count
                   /\ sub_scrolls' = NextScrolls(sub_scrolls)
           /\ pc' = IF breaks /\ sub_breaks THEN "eq_done"
                    ELSE IF breaks \/ sub_breaks THEN "eq_apart"
                    ELSE "eq_loop"
    /\ UNCHANGED <<collected_tweet_ids, collected_tweets_data, max_tweets,
                   max_scrolls, pending, kind, tweet_url, max_sub,
                   sub_max_scrolls, temp_collected_ids, sub_data,
                   sub_pending, eqFrame>>

BothNext ==
    \/ BothStart
    \/ BothEnumerate
    \/ BothProcessItem
    \/ BothEndPass

BothSpec == Init /\ [][BothNext]_vars

(***************************************************************************)
(* scrape_with_engagement_analysis: the profile's tweets, then for each of *)
(* them its replies and its quotes.                                        *)
(*   pc        "eng_loop"  at the head of the for loop over df_original    *)
(*             "eng_done"  the analysis returned its dict                  *)
(***************************************************************************)
\* the dict returned when no original tweet was found
EmptyAnalysis ==
    [original_tweets |-> <<>>, all_replies |-> <<>>, all_quotes |-> <<>>]

\* df['total_engagement'] = like_count + retweet_count + reply_count on the
\* replies and quotes tables
SubFrame(rows) ==
    [i \in 1..Len(rows) |->
        rows[i] @@ ("total_engagement" :>
            rows[i].like_count + rows[i].retweet_count + rows[i].reply_count)]

\* whether a navigation outcome leaves the surface impossible to query
SurfaceUnavailable(nav) == nav \in {"wall", "raise", "dead"}

\* Step 1: scrape_by_username(username, max_tweets, max_scrolls_main, True)
scrape_with_engagement_analysis ==
    /\ pc = "idle"
    /\ \E nav \in NavOutcomes :
         /\ StartSession("nasa", EngTweets, EngScrollsMain, TRUE, nav)
         /\ unavailable' = (nav \in {"wall", "raise"})
    /\ \E mr, mq \in 0..MaxPerTweet :
         max_per_tweet' = [replies |-> mr, quotes |-> mq]
    /\ idx' = 0
    /\ idx_at_failure' = 0
    /\ all_replies' = <<>>
    /\ all_quotes' = <<>>
    /\ eng_result' = <<>>
    /\ UNCHANGED <<callerVars, scrollVars, waitVars, cookieVars>>

\* scrape_by_username has returned df_original (result): abort when it is
\* empty, else enter the for loop.  The locals of the returned collector are
\* gone.
EngStep1Returned ==
    /\ pc \in {"done", "refused", "error"}
    /\ idx = 0
    /\ eng_result = <<>>
    /\ IF result = <<>>
       THEN /\ eng_result' = EmptyAnalysis
            /\ pc' = "eng_done"
            /\ UNCHANGED idx
       ELSE /\ idx' = 1
            /\ pc' = "eng_loop"
            /\ UNCHANGED eng_result
    /\ scrolls' = 0
    /\ no_new_tweets_count' = 0
    /\ last_collected_count' = 0
    /\ pending' = 0
    /\ scroll_requests' = 0
    /\ enumerations' = 0
    /\ offered' = {}
    /\ pass_start_len' = 0
    /\ empty_passes' = 0
    /\ UNCHANGED <<logged_in, collected_tweet_ids, collected_tweets_data,
                   max_tweets, max_scrolls, filter_username, result,
                   callVars, callerVars, scrollVars, navVars, waitVars, cookieVars, subVars, max_per_tweet,
                   all_replies, all_quotes, unavailable, idx_at_failure>>

\* what meeting nav at record idx does to the record of the failure
NoteSurface(nav) ==
    /\ unavailable' = (unavailable \/ SurfaceUnavailable(nav))
    /\ idx_at_failure' = IF ~unavailable /\ SurfaceUnavailable(nav)
                         THEN idx ELSE idx_at_failure

\* replies = self.scrape_tweet_replies(tweet_url, max_replies_per_tweet, 30)
EngCallReplies ==
    /\ pc = "eng_loop"
    /\ idx <= Len(result)
    /\ \E nav \in SubNavOutcomes :
         /\ SubStart("replies", result[idx].tweet_url, max_per_tweet.replies,
                     EngSubMaxScrolls, nav)
         /\ NoteSurface(nav)
    /\ UNCHANGED <<max_per_tweet, idx, all_replies, all_quotes, eng_result>>

\* all_replies.extend(replies); quotes = self.scrape_tweet_quotes(...)
EngCallQuotes ==
    /\ pc = "sub_done"
    /\ kind = "replies"
    /\ idx > 0
    /\ all_replies' = all_replies \o sub_return
    /\ \E nav \in SubNavOutcomes :
         /\ SubStart("quotes", result[idx].tweet_url, max_per_tweet.quotes,
                     EngSubMaxScrolls, nav)
         /\ NoteSurface(nav)
    /\ UNCHANGED <<max_per_tweet, idx, all_quotes, eng_result>>

\* all_quotes.extend(quotes) and the next iteration of the for loop
EngNextRecord ==
    /\ pc = "sub_done"
    /\ kind = "quotes"
    /\ idx > 0
    /\ all_quotes' = all_quotes \o sub_return
    /\ idx' = idx + 1
    /\ pc' = "eng_loop"
    /\ UNCHANGED <<collectorVars, callVars, callerVars, scrollVars, navVars, waitVars, cookieVars, subVars,
                   max_per_tweet, all_replies, eng_result, unavailable,
                   idx_at_failure>>

\* after the for loop: the three tables are built, saved and returned
EngFinish ==
    /\ pc = "eng_loop"
    /\ idx > Len(result)
    /\ eng_result' = [original_tweets |-> result,
                      all_replies |-> SubFrame(all_replies),
                      all_quotes |-> SubFrame(all_quotes)]
    /\ pc' = "eng_done"
    /\ UNCHANGED <<collectorVars, callVars, callerVars, scrollVars, navVars, waitVars, cookieVars, subVars,
                   max_per_tweet, idx, all_replies, all_quotes, unavailable,
                   idx_at_failure>>

EngNext ==
    \/ scrape_with_engagement_analysis
    \/ Enumerate
    \/ ProcessItem
    \/ EndPass
    \/ Return
    \/ EngStep1Returned
    \/ EngCallReplies
    \/ SubEnumerate
    \/ SubProcessItem
    \/ SubEndPass
    \/ SubRestore
    \/ EngCallQuotes
    \/ EngNextRecord
    \/ EngFinish

EngSpec == Init /\ [][EngNext]_vars

(***************************************************************************)
(* The cleaning stage, preprocessing/data_cleaner_complete.py, on the      *)
(* files scrape_with_engagement_analysis saves.                            *)
(***************************************************************************)
\* a file name nothing was written under
NoFile == [saved |-> FALSE, rows |-> <<>>]

\* df.to_csv(file, index=False, encoding='utf-8')
ToCsv(rows) == [saved |-> TRUE, rows |-> rows]

\* the csv files of one analysis: the original tweets always, the replies
\* and the quotes only "if not df.empty"
SavedFiles(analysis) ==
    [original |-> ToCsv(analysis.original_tweets),
     replies  |-> IF analysis.all_replies = <<>> THEN NoFile
                  ELSE ToCsv(analysis.all_replies),
     quotes   |-> IF analysis.all_quotes = <<>> THEN NoFile
                  ELSE ToCsv(analysis.all_quotes)]

\* find_newest_dataset: a dataset is complete when all three files exist
CompleteDataset(files) ==
    files.original.saved /\ files.replies.saved /\ files.quotes.saved

\* df.columns of a table read back from its csv file
Columns(rows) == UNION {DOMAIN rows[i] : i \in 1..Len(rows)}

\* df.drop_duplicates(subset=['content']): the first row of each content
RECURSIVE DropDuplicateContent(_, _)
DropDuplicateContent(rows, seen) ==
    IF rows = <<>> THEN <<>>
    ELSE IF Head(rows).content \in seen
         THEN DropDuplicateContent(Tail(rows), seen)
         ELSE <<Head(rows)>>
                \o DropDuplicateContent(Tail(rows), seen \cup {Head(rows).content})

\* df.dropna(subset=['content']): an empty text is read back from the csv
\* file as a missing value
HasContent(r) == r.content # ""

\* quotes_df['quote_of'] and replies_df['reply_of']
ParentColumn(tweet_type) ==
    IF tweet_type = "quotes" THEN "quote_of" ELSE "reply_of"

\* original_df['tweet_url']
JoinColumn == "tweet_url"

\* df[col] = value on one row: the column is added or overwritten
WithColumn(r, col, value) ==
    [c \in DOMAIN r \cup {col} |-> IF c = col THEN value ELSE r[c]]

\* if col not in df.columns: df[col] = 0
ColumnOrZero(r, col) == IF col \in DOMAIN r THEN r[col] ELSE 0

\* TweetDataCleaner.extract_features on one row, as far as the counts go:
\* the columns likes, retweets and replies are created with 0 when the file
\* has none of that name, and total_engagement is set to their sum (the
\* date and text features are further columns, which no other column
\* depends on)
extract_features(r) ==
    LET likes == ColumnOrZero(r, "likes")
        retweets == ColumnOrZero(r, "retweets")
        replies == ColumnOrZero(r, "replies")
    IN  WithColumn(WithColumn(WithColumn(WithColumn(r,
            "likes", likes), "retweets", retweets), "replies", replies),
            "total_engagement", likes + retweets + replies)

\* TweetDataCleaner.clean_dataset on one file, followed by
\* df['tweet_type'] = tweet_type: duplicates and rows without text go, the
\* features are derived, the columns read from the file stay
clean_dataset(file, tweet_type) ==
    LET kept == SelectSeq(DropDuplicateContent(file.rows, {}), HasContent)
    IN  [i \in 1..Len(kept) |->
            WithColumn(extract_features(kept[i]), "tweet_type", tweet_type)]

\* process_dataset_group on the files of a data directory: "None" when no
\* complete dataset or no original tweet is found, "KeyError" when a column
\* it indexes is not in the table, else "combined"
process_dataset_group(files) ==
    IF ~CompleteDataset(files) THEN "None"
    ELSE LET original_df == clean_dataset(files.original, "original")
             quotes_df == clean_dataset(files.quotes, "quotes")
             replies_df == clean_dataset(files.replies, "replies")
         IN  IF original_df = <<>> THEN "None"
             ELSE IF quotes_df # <<>>
                     /\ ParentColumn("quotes") \notin Columns(quotes_df)
             THEN "KeyError"
             ELSE IF replies_df # <<>>
                     /\ ParentColumn("replies") \notin Columns(replies_df)
             THEN "KeyError"
             ELSE IF (quotes_df # <<>> \/ replies_df # <<>>)
                     /\ JoinColumn \notin Columns(original_df)
             THEN "KeyError"
             ELSE "combined"

(***************************************************************************)
(* Cookies and login: save_cookies, load_cookies and                       *)
(* login_with_cookies_or_manual, over several process invocations.         *)
(*   pc        "saved", "loaded", "login_returned"  after such a call      *)
(***************************************************************************)
CookieIdle == {"idle", "saved", "loaded", "login_returned"}

notCookieVars == <<collected_tweet_ids, collected_tweets_data,
                   max_tweets, max_scrolls, filter_username, scrolls,
                   no_new_tweets_count, last_collected_count, pending,
                   scroll_requests, enumerations, offered, result,
                   pass_start_len, empty_passes, callVars, callerVars, scrollVars, navVars, waitVars,
                   subVars, engVars>>

\* save_cookies(account_name)
save_cookies ==
    /\ pc \in CookieIdle
    /\ calls < MaxCalls
    /\ \E name \in Labels :
         /\ account_name' = name
         /\ cookies_file' = CookieFilePath(name)
         /\ cookie_files' = [cookie_files EXCEPT ![CookieFilePath(name)] = Pickle(jar)]
         /\ saved_under' = [saved_under EXCEPT ![name] = [saved |-> TRUE, cookies |-> jar]]
    /\ pc' = "saved"
    /\ calls' = calls + 1
    /\ UNCHANGED <<logged_in, use_cookies, jar, server_valid, presented,
                   load_result, login_result, manual_flows, driver_ok,
                   notCookieVars>>

\* load_cookies(account_name)
load_cookies ==
    /\ pc \in CookieIdle
    /\ calls < MaxCalls
    /\ \E name \in Labels, nav_ok \in BOOLEAN, accepted \in SUBSET AllNames :
         LET r == LoadCookies(cookie_files[CookieFilePath(name)], jar, nav_ok, accepted)
         IN  /\ account_name' = name
             /\ cookies_file' = CookieFilePath(name)
             /\ jar' = r.jar
             /\ presented' = r.presented
             /\ load_result' = IF r.ok THEN "True" ELSE "False"
             /\ driver_ok' = (nav_ok /\ accepted = AllNames)
    /\ pc' = "loaded"
    /\ calls' = calls + 1
    /\ UNCHANGED <<logged_in, use_cookies, cookie_files, saved_under,
                   server_valid, login_result, manual_flows, notCookieVars>>

\* login_with_cookies_or_manual(account_name): the saved cookies when
\* use_cookies is set and they log the session in, else the manual flow, in
\* which the user logs in within the 120 seconds (the site issues token t
\* with expiry e) or does not; a poll of the manual flow also detects a
\* session the browser still holds and the site still accepts.
LoginFlow ==
    /\ pc \in CookieIdle
    /\ calls < MaxCalls
    /\ \E name \in Labels, nav_ok \in BOOLEAN, accepted \in SUBSET AllNames,
          user_logs_in \in BOOLEAN, t \in Tokens, e \in AuthExpiries :
         LET path == CookieFilePath(name)
             r == IF use_cookies
                  THEN LoadCookies(cookie_files[path], jar, nav_ok, accepted)
                  ELSE [ok |-> FALSE, jar |-> jar, presented |-> {}]
             by_cookies == use_cookies /\ r.ok /\ check_logged_in(r.jar, server_valid)
             valid2 == IF user_logs_in THEN server_valid \cup {t}
                       ELSE server_valid
             jar2 == IF user_logs_in THEN AddAll(r.jar, ServerCookies(t, e))
                     ELSE r.jar
             by_hand == ~by_cookies /\ check_logged_in(jar2, valid2)
         IN  /\ account_name' = name
             /\ cookies_file' = IF use_cookies THEN path ELSE cookies_file
             /\ presented' = r.presented
             /\ load_result' = IF ~use_cookies THEN "none"
                               ELSE IF r.ok THEN "True" ELSE "False"
             /\ driver_ok' = (nav_ok /\ accepted = AllNames)
             /\ manual_flows' = IF by_cookies THEN manual_flows ELSE manual_flows + 1
             /\ jar' = IF by_cookies THEN r.jar ELSE jar2
             /\ server_valid' = IF by_cookies THEN server_valid ELSE valid2
             /\ cookie_files' = IF by_hand /\ use_cookies
                                THEN [cookie_files EXCEPT ![path] = Pickle(jar2)]
                                ELSE cookie_files
             /\ saved_under' = IF by_hand /\ use_cookies
                               THEN [saved_under EXCEPT
                                       ![name] = [saved |-> TRUE, cookies |-> jar2]]
                               ELSE saved_under
             /\ logged_in' = IF by_cookies \/ by_hand THEN TRUE ELSE logged_in
             /\ login_result' = IF by_cookies \/ by_hand THEN "True" ELSE "False"
    /\ pc' = "login_returned"
    /\ calls' = calls + 1
    /\ UNCHANGED <<use_cookies, notCookieVars>>

\* The process ends and a later invocation constructs a new scraper with a
\* new browser session; the cookies directory stays.
NewInvocation ==
    /\ pc \in CookieIdle \ {"idle"}
    /\ pc' = "idle"
    /\ \E use \in BOOLEAN : use_cookies' = use
    /\ logged_in' = FALSE
    /\ cookies_file' = <<>>
    /\ jar' = {}
    /\ presented' = {}
    /\ load_result' = "none"
    /\ login_result' = "none"
    /\ manual_flows' = 0
    /\ driver_ok' = TRUE
    /\ UNCHANGED <<cookie_files, saved_under, server_valid, calls,
                   account_name, notCookieVars>>

\* The site ends a session: its token is no longer accepted.
ExpireSession ==
    /\ pc \in CookieIdle
    /\ \E t \in server_valid : server_valid' = server_valid \ {t}
    /\ UNCHANGED <<pc, logged_in, use_cookies, cookies_file, cookie_files,
                   saved_under, jar, presented, load_result, login_result,
                   manual_flows, calls, driver_ok, account_name,
                   notCookieVars>>

LoginNext ==
    \/ save_cookies
    \/ load_cookies
    \/ LoginFlow
    \/ NewInvocation
    \/ ExpireSession

LoginSpec == Init /\ [][LoginNext]_vars

(***************************************************************************)
(* The manual wait of login_with_cookies_or_manual step by step: the call  *)
(* up to the wait, one iteration of the while loop per step, and the       *)
(* timed-out return.  Time is in whole seconds.                            *)
(*   pc        "waiting"   at the while test of the manual wait            *)
(***************************************************************************)
waitFrame == <<collected_tweet_ids, collected_tweets_data,
               max_tweets, max_scrolls, filter_username, scrolls,
               no_new_tweets_count, last_collected_count, pending,
               scroll_requests, enumerations, offered, result,
               pass_start_len, empty_passes, callVars, callerVars,
               scrollVars, navVars, subVars, engVars>>

\* login_with_cookies_or_manual(account_name) up to the manual wait: it
\* returns True when use_cookies is set and the saved cookies log the
\* session in, else it opens the login page and sets start_time.
LoginBegin ==
    /\ pc \in CookieIdle
    /\ calls < MaxCalls
    /\ \E name \in Labels, nav_ok \in BOOLEAN, accepted \in SUBSET AllNames :
         LET path == CookieFilePath(name)
             r == IF use_cookies
                  THEN LoadCookies(cookie_files[path], jar, nav_ok, accepted)
                  ELSE [ok |-> FALSE, jar |-> jar, presented |-> {}]
             by_cookies == use_cookies /\ r.ok /\ check_logged_in(r.jar, server_valid)
         IN  /\ account_name' = name
             /\ cookies_file' = IF use_cookies THEN path ELSE cookies_file
             /\ presented' = r.presented
             /\ load_result' = IF ~use_cookies THEN "none"
                               ELSE IF r.ok THEN "True" ELSE "False"
             /\ driver_ok' = (nav_ok /\ accepted = AllNames)
             /\ jar' = r.jar
             /\ IF by_cookies
                THEN /\ logged_in' = TRUE
                     /\ login_result' = "True"
                     /\ pc' = "login_returned"
                     /\ UNCHANGED <<manual_flows, elapsed, polls>>
                ELSE /\ manual_flows' = manual_flows + 1
                     /\ elapsed' = 0
                     /\ polls' = 0
                     /\ login_result' = "none"
                     /\ pc' = "waiting"
                     /\ UNCHANGED logged_in
    /\ calls' = calls + 1
    /\ UNCHANGED <<use_cookies, cookie_files, saved_under, server_valid,
                   waitFrame>>

\* One iteration of the wait loop: time.sleep(5), check_logged_in, and on
\* detection save_cookies (with use_cookies), logged_in = True, return True.
\* The sleep and the poll take 5 + d seconds; the user may have completed
\* the login by now (the site issues token t with expiry e).
WaitPoll ==
    /\ pc = "waiting"
    /\ elapsed < login_timeout
    /\ \E d \in 0..MaxPollDelay, user_logs_in \in BOOLEAN, t \in Tokens,
          e \in AuthExpiries :
         LET path == CookieFilePath(account_name)
             valid2 == IF user_logs_in THEN server_valid \cup {t}
                       ELSE server_valid
             jar2 == IF user_logs_in THEN AddAll(jar, ServerCookies(t, e))
                     ELSE jar
             detected == check_logged_in(jar2, valid2)
         IN  /\ elapsed' = elapsed + PollSleep + d
             /\ polls' = polls + 1
             /\ jar' = jar2
             /\ server_valid' = valid2
             /\ cookie_files' = IF detected /\ use_cookies
                                THEN [cookie_files EXCEPT ![path] = Pickle(jar2)]
                                ELSE cookie_files
             /\ saved_under' = IF detected /\ use_cookies
                               THEN [saved_under EXCEPT
                                       ![account_name] =
                                          [saved |-> TRUE, cookies |-> jar2]]
                               ELSE saved_under
             /\ cookies_file' = IF detected /\ use_cookies THEN path
                                ELSE cookies_file
             /\ logged_in' = IF detected THEN TRUE ELSE logged_in
             /\ login_result' = IF detected THEN "True" ELSE login_result
             /\ pc' = IF detected THEN "login_returned" ELSE "waiting"
    /\ UNCHANGED <<use_cookies, presented, load_result, manual_flows, calls,
                   driver_ok, account_name, waitFrame>>

\* The while test fails: "Login timeout", return False.
WaitTimeout ==
    /\ pc = "waiting"
    /\ ~(elapsed < login_timeout)
    /\ login_result' = "False"
    /\ pc' = "login_returned"
    /\ UNCHANGED <<logged_in, use_cookies, cookies_file, cookie_files,
                   saved_under, jar, server_valid, presented, load_result,
                   manual_flows, calls, driver_ok, account_name, elapsed,
                   polls, waitFrame>>

WaitNext ==
    \/ LoginBegin
    \/ WaitPoll
    \/ WaitTimeout
    \/ ExpireSession

\* the running call goes on: the loop is not suspended for ever
WaitSpec == Init /\ [][WaitNext]_vars /\ WF_vars(WaitPoll \/ WaitTimeout)

(***************************************************************************)
(* The scroll-then-extract scrapers: ImprovedSeleniumScraper               *)
(* .scrape_by_username (smart_scroll, then _extract_tweets with the        *)
(* username as filter) and CookieTwitterScraper.scrape_tweets (its own     *)
(* scroll loop, then _extract_tweets).  They scroll until enough tweet     *)
(* elements are on the page and then extract every element in one pass.    *)
(*   pc        "scroll_loop"     at the while test of the scroll loop      *)
(*             "scroll_extract"  the loop is left, _extract_tweets is next *)
(*             "scroll_done"     the call has returned result              *)
(***************************************************************************)
scrollFrame == <<logged_in, collected_tweet_ids, collected_tweets_data,
                 no_new_tweets_count, last_collected_count, pending,
                 scroll_requests, enumerations, offered, pass_start_len,
                 empty_passes, callVars, callerVars, original_url,
                 nav_failed, waitVars, subVars, engVars, cookieVars>>

\* the tweet elements a page may add
ScrollItems ==
    { Item(TRUE, 1, "A", <<"NASA", "@nasa">>),
      Item(TRUE, 2, "B", <<"NASA", "@NASA">>),
      Item(TRUE, 3, "C", <<"Bob", "@bob">>),
      Item(FALSE, 0, NoLink, NoElem) }

\* what a page load or a scroll may add to a page holding n elements
Added(n) ==
    UNION { [1..k -> ScrollItems] :
              k \in 0..(IF MaxRendered - n < MaxVisible THEN MaxRendered - n
                        ELSE MaxVisible) }

\* text_elem.text, "" when the element is missing
PlainText(elem) ==
    IF elem.text = TextMissing THEN "" ELSE elem.text

\* the dict _extract_tweets builds for one element: the improved scraper
\* takes the username from the element and parses the labels with
\* extract_number, the cookie scraper takes the username of the call and
\* parses with its get_count
ScrollRecord(v, elem, username) ==
    IF v = "improved"
    THEN [date          |-> elem.datetime,
          username      |-> ExtractUsername(elem),
          content       |-> PlainText(elem),
          reply_count   |-> extract_number(elem.reply),
          retweet_count |-> extract_number(elem.retweet),
          like_count    |-> extract_number(elem.like),
          view_count    |-> extract_number(elem.analytics),
          tweet_url     |-> elem.href]
    ELSE [date          |-> elem.datetime,
          username      |-> username,
          content       |-> PlainText(elem),
          reply_count   |-> get_count_cookies(elem.reply),
          retweet_count |-> get_count_cookies(elem.retweet),
          like_count    |-> get_count_cookies(elem.like),
          tweet_url     |-> elem.href]

\* The for loop of _extract_tweets over the elements found: an element is
\* skipped when the filter of the improved scraper rejects its username,
\* when it has no url, or when its url is in seen_urls; every other element
\* is appended.
RECURSIVE extract_tweets_loop(_, _, _, _, _)
extract_tweets_loop(v, tweet_elements, username, seen_urls, tweets_list) ==
    IF tweet_elements = <<>> THEN tweets_list
    ELSE LET elem == Head(tweet_elements)
             url == IF elem.time THEN elem.href ELSE NoLink
             rejected == v = "improved"
                         /\ FilteredOut([username |-> ExtractUsername(elem)],
                                        username)
         IN  IF rejected \/ url = NoLink \/ url \in seen_urls
             THEN extract_tweets_loop(v, Tail(tweet_elements), username,
                                      seen_urls, tweets_list)
             ELSE extract_tweets_loop(v, Tail(tweet_elements), username,
                                      seen_urls \cup {url},
                                      Append(tweets_list,
                                             ScrollRecord(v, elem, username)))

\* _extract_tweets: the table of the records with total_engagement, sorted
\* by date
extract_tweets(v, tweet_elements, username) ==
    LET tweets_list == extract_tweets_loop(v, tweet_elements, username, {}, <<>>)
    IN  SortByDateDesc(
          [i \in 1..Len(tweets_list) |->
             tweets_list[i] @@
               ("total_engagement" :>
                  tweets_list[i].like_count + tweets_list[i].retweet_count
                    + tweets_list[i].reply_count)])

\* if current_tweets >= tweets_target (max_tweets)
EnoughVisible(current_tweets, target) == current_tweets >= target

\* the height check of both scroll loops: the counter after this scroll
NoChangeAfter(height_changed, no_change) ==
    IF height_changed THEN 0 ELSE no_change + 1

\* The call up to the scroll loop: navigation, login wall check; the page
\* load renders the first elements.
\*   nav: "ok", "wall" (the login page came up), "raise"
ScrollStart ==
    /\ pc = "idle"
    /\ \E v \in {"improved", "cookie"}, mt \in 0..MaxTweetsBound,
          ms \in 0..MaxScrollsBound, nav \in {"ok", "wall", "raise"},
          first \in Added(0) :
         /\ variant' = v
         /\ max_tweets' = mt
         /\ max_scrolls' = ms
         /\ filter_username' = "nasa"
         /\ rendered' = IF nav = "ok" THEN first ELSE <<>>
         /\ current_url' = CASE nav = "ok"   -> "profile"
                             [] nav = "wall" -> "login"
                             [] OTHER        -> current_url
         /\ pc' = IF nav = "ok" THEN "scroll_loop" ELSE "scroll_done"
    /\ scrolls' = 0
    /\ no_change_count' = 0
    /\ prev_tweet_count' = 0
    /\ result' = <<>>
    /\ UNCHANGED scrollFrame

\* One iteration of the scroll loop, or the while test failing.  The scroll
\* adds elements (new) and changes the page height or not; the improved
\* scraper scrolls once more when the count did not grow (that scroll adds
\* more).  A driver call that raises ends the call with an empty table.
ScrollPass ==
    /\ pc = "scroll_loop"
    /\ IF scrolls < max_scrolls
       THEN \/ \E new \in Added(Len(rendered)), height_changed \in BOOLEAN :
                 LET current_tweets == Len(rendered) + Len(new)
                     no_change == NoChangeAfter(height_changed, no_change_count)
                     stalled == StallLimitReached(no_change)
                 IN  /\ (new # <<>> => height_changed)
                     /\ IF variant = "improved"
                        THEN IF EnoughVisible(current_tweets, max_tweets)
                             THEN /\ rendered' = rendered \o new
                                  /\ pc' = "scroll_extract"
                                  /\ UNCHANGED <<no_change_count,
                                                 prev_tweet_count, scrolls>>
                             ELSE IF stalled
                             THEN /\ rendered' = rendered \o new
                                  /\ no_change_count' = no_change
                                  /\ pc' = "scroll_extract"
                                  /\ UNCHANGED <<prev_tweet_count, scrolls>>
                             ELSE /\ no_change_count' = no_change
                                  /\ \E more \in Added(current_tweets) :
                                       /\ (current_tweets # prev_tweet_count
                                             => more = <<>>)
                                       /\ rendered' = rendered \o new \o more
                                  /\ prev_tweet_count' = current_tweets
                                  /\ scrolls' = scrolls + 1
                                  /\ pc' = "scroll_loop"
                        ELSE /\ rendered' = rendered \o new
                             /\ no_change_count' = no_change
                             /\ UNCHANGED prev_tweet_count
                             /\ IF stalled
                                THEN /\ pc' = "scroll_extract"
                                     /\ UNCHANGED scrolls
                                ELSE /\ scrolls' = scrolls + 1
                                     /\ pc' = IF EnoughVisible(current_tweets,
                                                               max_tweets)
                                              THEN "scroll_extract"
                                              ELSE "scroll_loop"
                     /\ UNCHANGED result
            \/ /\ pc' = "scroll_done"
               /\ result' = <<>>
               /\ UNCHANGED <<rendered, no_change_count, prev_tweet_count,
                              scrolls>>
       ELSE /\ pc' = "scroll_extract"
            /\ UNCHANGED <<rendered, no_change_count, prev_tweet_count,
                           scrolls, result>>
    /\ UNCHANGED <<variant, max_tweets, max_scrolls, filter_username,
                   current_url, scrollFrame>>

\* After the loop: _extract_tweets on the elements the page holds, and the
\* return of its table.
ScrollExtract ==
    /\ pc = "scroll_extract"
    /\ result' = extract_tweets(variant, rendered, filter_username)
    /\ pc' = "scroll_done"
    /\ UNCHANGED <<variant, rendered, no_change_count, prev_tweet_count,
                   max_tweets, max_scrolls, filter_username, scrolls,
                   current_url, scrollFrame>>

ScrollNext ==
    \/ ScrollStart
    \/ ScrollPass
    \/ ScrollExtract

ScrollSpec == Init /\ [][ScrollNext]_vars

(***************************************************************************)
(* Properties of the collector.                                            *)
(***************************************************************************)
Running == pc \in {"loop", "items", "return"}
Terminal == pc \in {"done", "error", "refused"}

Urls(rows) == {rows[i].tweet_url : i \in 1..Len(rows)}

Unique(rows) ==
    \A i, j \in 1..Len(rows) : i # j => rows[i].tweet_url # rows[j].tweet_url

\* C1: in every reachable state of a collection session and at return, no two
\* records of collected_tweets_data (nor two rows of the returned table) have
\* the same tweet_url, whatever the passes render and with or without filter.
C1_NoDuplicateIdentifier ==
    Unique(collected_tweets_data) /\ Unique(result)

\* C1 witness: a session of four passes, one of which added nothing (it
\* rendered collected or unextractable items, or none), returned the three
\* links once each.
C1_Witness ==
    /\ pc = "done"
    /\ enumerations >= 4
    /\ max_tweets = 3
    /\ Urls(result) = Links
    /\ Len(result) = 3

\* C2: in every reachable state and at return the record list has at most
\* max_tweets records and at most (passes performed) x (items visible per
\* pass) records; at return the passes performed are the scrolls counted.
C2_LengthBounds ==
    /\ Len(collected_tweets_data) <= max_tweets
    /\ Len(collected_tweets_data) <= enumerations * MaxVisible
    /\ Len(result) <= max_tweets
    /\ pc \in {"loop", "return", "done"}
          => Len(collected_tweets_data) <= scrolls * MaxVisible

\* C2 witness: a session returned exactly max_tweets records, as many as its
\* passes could render at all.
C2_Witness ==
    /\ pc = "done"
    /\ max_tweets > 0
    /\ Len(result) = max_tweets
    /\ Len(result) = scrolls * MaxVisible

\* A measure of the work left: before a call, the login still possible and
\* the largest call; in a call, the passes still allowed by max_scrolls, then
\* the position inside the pass.
Rank ==
    LET left == max_scrolls - scrolls
        k    == MaxVisible + 3
    IN  CASE pc = "idle"   -> (MaxScrollsBound + 2) * k
                                + (IF logged_in THEN 0 ELSE 1)
          [] pc = "loop"   -> left * k + MaxVisible + 3
          [] pc = "items"  -> left * k + pending + 2
          [] pc = "return" -> 1
          [] OTHER         -> 0

\* C3: the collector terminates whatever the surface renders (every step of
\* a call lowers a measure that is never negative, and a call that has not
\* returned can always take a step), and it never issues more than
\* max_scrolls scroll requests.
C3_TerminatesWithinMaxScrolls ==
    /\ [](scroll_requests <= max_scrolls)
    /\ [](Rank >= 0)
    /\ [](Terminal \/ ENABLED Next)
    /\ [][Rank' < Rank]_vars

\* C3 witness: a session that used every allowed scroll, adding a record in
\* its last pass, and returned short of the target.
C3_Witness ==
    /\ pc = "done"
    /\ max_scrolls = MaxScrollsBound
    /\ scroll_requests = max_scrolls
    /\ no_new_tweets_count = 0
    /\ Len(result) < max_tweets

\* C4: after stall_limit consecutive passes that add no record the session
\* stops at the end of the last of them without another scroll request, its
\* outcome is ExhaustedFeed and the records collected before are all returned.
C4_StallStops ==
    /\ [](/\ pc \in {"loop", "items"} => empty_passes < stall_limit
          /\ (Running \/ pc = "done") /\ empty_passes >= stall_limit
                => Outcome = "ExhaustedFeed"
          /\ pc = "done" /\ empty_passes >= stall_limit
                => /\ Urls(result) = Urls(collected_tweets_data)
                   /\ Len(result) = Len(collected_tweets_data))
    /\ [][empty_passes' >= stall_limit /\ empty_passes < stall_limit
            => /\ pc' = "return"
               /\ scroll_requests' = scroll_requests
               /\ collected_tweets_data' = collected_tweets_data]_vars

\* C4 witness: a session that collected a record, then stalled for three
\* passes and returned it without having reached the target.
C4_Witness ==
    /\ pc = "done"
    /\ empty_passes = stall_limit
    /\ Len(result) = 1
    /\ max_tweets > 1
    /\ scrolls < max_scrolls

\* C5: with max_scrolls = 0 no pass is attempted (no enumeration, no
\* extraction, no scroll request), the record list returned is empty and the
\* outcome is PassLimitReached.
C5_ZeroPasses ==
    (pc # "idle" /\ max_scrolls = 0)
        => /\ pc # "items"
           /\ enumerations = 0
           /\ scroll_requests = 0
           /\ collected_tweet_ids = {}
           /\ collected_tweets_data = <<>>
           /\ result = <<>>
           /\ pc = "done" => Outcome = "PassLimitReached"

\* C5 witness: a session with max_scrolls = 0 and a positive target returned.
C5_Witness ==
    pc = "done" /\ max_scrolls = 0 /\ max_tweets > 0


C7_ExactUnion ==
    (pc = "done" /\ Len(collected_tweets_data) < max_tweets)
        => /\ Urls(result) \ {NoLink} = offered
           /\ Unique(result)

\* C8: an item without a permalink is never recorded: no record and no
\* returned row has the missing link as its tweet_url, and the missing link
\* is never marked as collected.
C8_NoIdentifierlessRecord ==
    /\ NoLink \notin Urls(collected_tweets_data)
    /\ NoLink \notin Urls(result)
    /\ NoLink \notin collected_tweet_ids


IsPrefix(s, t) == Len(s) <= Len(t) /\ SubSeq(t, 1, Len(s)) = s

\* C11: in every state between passes of a session (and at its end), with or
\* without filter, the record list has as many records as the identifier set
\* has identifiers.
C11_ListLengthEqualsSetSize ==
    pc \in {"loop", "return", "done"}
        => Len(collected_tweets_data) = Cardinality(collected_tweet_ids)

\* C12: within one session the record list only grows by appending: every
\* step of a running session leaves the old list as a prefix of the new one
\* (nothing removed or reordered), so the count never decreases.
C12_ListGrowsByAppending ==
    [][Running => /\ IsPrefix(collected_tweets_data, collected_tweets_data')
                  /\ Len(collected_tweets_data') >= Len(collected_tweets_data)]_vars

\* C12 witness: a finished session whose list holds two records in discovery
\* order, the older tweet first, while the returned table is sorted by date.
C12_Witness ==
    /\ pc = "done"
    /\ Len(collected_tweets_data) = 2
    /\ collected_tweets_data[1].date < collected_tweets_data[2].date
    /\ result[1].tweet_url = collected_tweets_data[2].tweet_url

\* C16: an error raised by the driver while a pass enumerates or scrolls is
\* caught inside the loop: no step of a running pass leaves through the
\* caller's exception handler, and the session goes on to its next pass or
\* to its return with the records collected so far.
C16_PassErrorsCaught ==
    [][(pc = "loop" \/ pc = "items")
         => /\ pc' \in {"loop", "items", "return"}
            /\ IsPrefix(collected_tweets_data, collected_tweets_data')]_vars

(***************************************************************************)
(* Properties of the sub-traversals.                                       *)
(***************************************************************************)
\* every record of rows names parent in the back-reference column of kind k
BackReferences(k, rows, parent) ==
    \A i \in 1..Len(rows) :
        IF k = "replies" THEN rows[i].reply_to = parent
        ELSE rows[i].quote_of = parent

\* C13: every record of a reply sub-collection carries reply_to = tweet_url
\* and every record of a quote sub-collection quote_of = tweet_url; the
\* sub-collection, while it is built and as returned, has at most
\* max_replies (max_quotes) records and no two with the same tweet_url.
C13_SubCollectionAnnotatedBounded ==
    kind # "none"
        => /\ BackReferences(kind, sub_data, tweet_url)
           /\ BackReferences(kind, sub_return, tweet_url)
           /\ Len(sub_data) <= max_sub
           /\ Len(sub_return) <= max_sub
           /\ Unique(sub_data)
           /\ Unique(sub_return)

\* C13 witness: a reply sub-traversal of several passes returned two records.
C13_Witness ==
    /\ pc = "sub_done"
    /\ kind = "replies"
    /\ sub_scrolls >= 2
    /\ Len(sub_return) = 2
    /\ Urls(sub_return) = {"R1", "R2"}

\* C14: no record of a reply or quote sub-collection, while it is built or
\* as returned, has the parent's tweet_url as its own.
C14_ParentExcluded ==
    kind # "none"
        => /\ tweet_url \notin Urls(sub_data)
           /\ tweet_url \notin Urls(sub_return)

\* C17: whatever happens in the restoration step after the loop of a
\* sub-traversal, the list returned is the list of records extracted before
\* that step.
C17_RestoreKeepsRecords ==
    [][pc = "sub_restore"
         => /\ pc' = "sub_done"
            /\ sub_return' = sub_data]_vars

\* C15: once the analysis has met a surface it cannot query (navigation
\* failed or the login page came up), at step 1 or inside a reply or quote
\* sub-traversal, it processes no further top-level record and does not
\* return a table of results: the failure aborts the whole traversal.
C15_UnavailableAborts ==
    unavailable
        => /\ idx = idx_at_failure
           /\ pc = "eng_done" => eng_result = EmptyAnalysis

\* C21: the stall counter after a pass depends only on whether the pass
\* added a record: 0 when it added one, one more than before when it added
\* none (items skipped by the extraction do not count by themselves); so it
\* always equals the number of the most recent consecutive passes that added
\* nothing and stays within 0..stall_limit.
C21_StallCountsEmptyPasses ==
    /\ [](/\ no_new_tweets_count = empty_passes
          /\ no_new_tweets_count \in 0..stall_limit)
    /\ [][(pc = "items" /\ pc' # "items")
            => no_new_tweets_count' =
                 IF Len(collected_tweets_data) > pass_start_len THEN 0
                 ELSE no_new_tweets_count + 1]_vars

\* C21 witness: three passes were made, the second added a record after
\* which the counter was 0, and the third added none: the counter is 1.
C21_Witness ==
    /\ pc = "loop"
    /\ enumerations = 3
    /\ no_new_tweets_count = 1
    /\ Len(collected_tweets_data) >= 1
    /\ last_collected_count = Len(collected_tweets_data)

\* the identifiers of a record list in its order
UrlSeq(rows) == [i \in 1..Len(rows) |-> rows[i].tweet_url]

\* C22: run on the same passes with the same limits, the reply loop of
\* scrape_tweet_replies and smart_scroll_and_collect with a filter that
\* excludes the parent hold the same identifiers in the same order and leave
\* their loops after the same pass, also when an item's extraction fails in
\* one pass and succeeds in a later one.
C22_RepliesSameAsCollector ==
    /\ pc \in {"eq_loop", "eq_items", "eq_done", "eq_apart"}
          => UrlSeq(sub_data) = UrlSeq(collected_tweets_data)
    /\ pc # "eq_apart"

\* C28: after clean_dataset has processed a table scrape_by_username
\* wrote, every remaining row's total_engagement is the sum of the row's
\* scraped reply, repost and like counts.
C28_CleanerKeepsTotalEngagement ==
    pc = "done"
        => LET cleaned == clean_dataset(ToCsv(result), "original")
           IN  \A i \in 1..Len(cleaned) :
                 cleaned[i].total_engagement =
                     cleaned[i].reply_count + cleaned[i].retweet_count
                         + cleaned[i].like_count

\* C25: each call of scrape_by_username or scrape_by_search is a fresh
\* session: it starts with an empty identifier set and an empty record list,
\* every identifier in its list was rendered during that call, and an item
\* rendered during the call whose identifier the call has not marked is
\* recorded whatever an earlier call collected.
C25_FreshSessionPerCall ==
    /\ [][(pc \in {"idle", "done"} /\ pc' \notin {"idle", "done"})
            => /\ collected_tweet_ids' = {}
               /\ collected_tweets_data' = <<>>]_vars
    /\ [](Urls(collected_tweets_data) \ {NoLink} \subseteq offered)
    /\ [][\A u \in offered' \ offered :
            u \notin collected_tweet_ids => u \in Urls(collected_tweets_data')]_vars

\* C25 witness: the second call returned an identifier the first call had
\* returned too, and did not return another one of the first call's.
C25_Witness ==
    /\ pc = "done"
    /\ prev_outcome # "none"
    /\ Urls(result) \cap Urls(prev_result) # {}
    /\ Urls(prev_result) \ Urls(result) # {}

\* C20: cleaning a complete scraped dataset never fails on a missing column:
\* every column process_dataset_group reads from the original, replies and
\* quotes tables is a column scrape_with_engagement_analysis wrote under the
\* same name.
C20_CleanerReadsWrittenColumns ==
    (pc = "eng_done" /\ CompleteDataset(SavedFiles(eng_result)))
        => process_dataset_group(SavedFiles(eng_result)) # "KeyError"

(***************************************************************************)
(* Properties of the cookie store and the login.                           *)
(***************************************************************************)
\* a step that is a call of load_cookies, directly or inside the login
LoadStep ==
    /\ calls' = calls + 1
    /\ pc' \in {"loaded", "login_returned"}
    /\ load_result' # "none"

\* a step that is a call of login_with_cookies_or_manual
LoginStep == calls' = calls + 1 /\ pc' = "login_returned"

\* the cookies saved under name hold a session token the site still accepts
SavedStillValid(name) ==
    /\ saved_under[name].saved
    /\ check_logged_in(saved_under[name].cookies, server_valid)

\* C18 as stated: a load under an account name that returns True presents
\* to the browser exactly the set of cookies last saved under that name (and
\* never those of another name); a load under a name nothing was saved under
\* returns False and adds no cookie.
C18_CookieRoundTrip ==
    [][LoadStep
         => /\ load_result' = "True"
                => /\ saved_under[account_name'].saved
                   /\ presented' = saved_under[account_name'].cookies
            /\ ~saved_under[account_name'].saved
                => /\ load_result' = "False"
                   /\ presented' = {}
                   /\ pc' = "loaded" => jar' = jar]_vars

\* C18 as amended: the cookies presented are those last saved under the same
\* name, each with its expiry cut to whole seconds.
C18_CookieRoundTripWholeSeconds ==
    [][LoadStep
         => /\ load_result' = "True"
                => /\ saved_under[account_name'].saved
                   /\ presented' = FixAll(saved_under[account_name'].cookies)
            /\ ~saved_under[account_name'].saved
                => /\ load_result' = "False"
                   /\ presented' = {}
                   /\ pc' = "loaded" => jar' = jar]_vars

\* C18 witness: a direct load in a new process returned True and presented
\* the saved cookies, one of them with a shortened expiry, while nothing was
\* saved under the other name.
C18_Witness ==
    /\ pc = "loaded"
    /\ load_result = "True"
    /\ presented # {}
    /\ presented # saved_under[account_name].cookies
    /\ presented = FixAll(saved_under[account_name].cookies)
    /\ \E l \in Labels : ~saved_under[l].saved

SessionAccepted(j, valid) ==
    \E c \in j : c.name = "auth_token" /\ c.value \in valid

\* C30: after a call of login_with_cookies_or_manual logged_in is True only
\* if a check_logged_in of that call returned True; the call writes a cookie
\* blob only after such a detection and only when use_cookies is set, and a
\* call that times out or fails writes none.
C30_LoggedInOnlyAfterDetection ==
    [][LoginStep
         => /\ logged_in'
                => /\ login_result' = "True"
                   /\ SessionAccepted(jar', server_valid')
            /\ (cookie_files' # cookie_files \/ saved_under' # saved_under)
                => /\ login_result' = "True"
                   /\ SessionAccepted(jar', server_valid')
                   /\ use_cookies
            /\ login_result' = "False"
                => /\ cookie_files' = cookie_files
                   /\ saved_under' = saved_under]_vars

(***************************************************************************)
(* Properties of single calls.                                             *)
(***************************************************************************)
\* The count a label stands for: its leading number (thousands commas
\* dropped) times the multiplier of the unit that follows it, 0 for a label
\* that does not begin with a number.
ClaimedCount(l) ==
    IF l = NoElem \/ l = NoAttr \/ l = <<>> THEN 0
    ELSE LET t == RemoveCommas(l)
             a == DigitRunEnd(t, 1)
             b == IF a <= Len(t) /\ t[a] = "." THEN DigitRunEnd(t, a + 1) ELSE a
             mult == IF b <= Len(t) /\ t[b] \in {"K", "k"} THEN KiloMultiplier
                     ELSE IF b <= Len(t) /\ t[b] \in {"M", "m"} THEN MegaMultiplier
                     ELSE 1
         IN  IF a = 1 THEN 0 ELSE ExactProduct(SubSeq(t, 1, b - 1), mult)

\* C9: for every engagement label, with or without descriptive words after
\* the number, get_count returns mantissa x multiplier (K = 1000,
\* M = 1000000, no unit = 1) as an exact integer, and 0 for a label that is
\* empty, missing or without a number.
C9_CountIsMantissaTimesUnit ==
    pc = "counted" => count = ClaimedCount(label)

\* C23: the count parsers of all scraper variants (extract_number,
\* get_count of the cookie scraper, get_count of versions 3 and 4) return
\* the same integer for the same label: mantissa x multiplier for a label
\* with a unit (K = 1000, M = 1000000), the plain integer without unit.
C23_ParsersAgree ==
    pc = "counted"
        => /\ extract_number(label) = count
           /\ get_count_cookies(label) = count
           /\ get_count_v3(label) = count
           /\ count = ClaimedCount(label)

PermalinkMissing(elem) == ~elem.time \/ elem.href = NoLink

LabelMissing(l) == l = NoElem \/ l = NoAttr

\* C10: extract_single_tweet returns a record for every item whose permalink
\* is obtainable and not yet collected, with 0 for each missing count and ""
\* for missing text; when the permalink is missing it returns None and adds
\* nothing to the identifier set.
C10_RecordUnlessPermalinkMissing ==
    [][pc = "extract" =>
         IF PermalinkMissing(tweet_elem)
         THEN /\ tweet_data' = <<>>
              /\ collected_tweet_ids' = collected_tweet_ids
         ELSE IF tweet_elem.href \in collected_tweet_ids
         THEN tweet_data' = <<>>
         ELSE /\ tweet_data' # <<>>
              /\ tweet_data'[1].tweet_url = tweet_elem.href
              /\ tweet_elem.text = TextMissing => tweet_data'[1].content = ""
              /\ LabelMissing(tweet_elem.reply) => tweet_data'[1].reply_count = 0
              /\ LabelMissing(tweet_elem.retweet) => tweet_data'[1].retweet_count = 0
              /\ LabelMissing(tweet_elem.like) => tweet_data'[1].like_count = 0
              /\ LabelMissing(tweet_elem.analytics) => tweet_data'[1].view_count = 0
              /\ tweet_elem.user = NoElem => tweet_data'[1].username = "unknown"]_vars

\* C29: every step of a sub-traversal (scrape_tweet_replies or
\* scrape_tweet_quotes), on every path to its return or to the exception it
\* lets through, leaves collected_tweet_ids and collected_tweets_data as
\* they were when it was called, although extract_single_tweet runs on an
\* empty set put in the place of collected_tweet_ids.
C29_SubTraversalKeepsCollection ==
    [][(kind' # "none")
         => /\ collected_tweet_ids' = collected_tweet_ids
            /\ collected_tweets_data' = collected_tweets_data]_vars

\* C29 witness: a quotes traversal called with "A" already collected has
\* returned a record of "A" itself, which extract_single_tweet would have
\* skipped on the unswapped set, and the collection still holds "A" and "B".
C29_Witness ==
    /\ pc = "sub_done"
    /\ kind = "quotes"
    /\ collected_tweet_ids = {"A", "B"}
    /\ Len(collected_tweets_data) = 2
    /\ \E i \in 1..Len(sub_return) : sub_return[i].tweet_url = "A"

MaxPolls == login_timeout \div PollSleep

\* C27: the manual wait polls check_logged_in once per sleep of 5 seconds
\* and at most 24 times; a poll that detects a login returns True at once
\* and one that does not goes on waiting; the timed-out wait returns False
\* with logged_in False; and every wait comes to its return.
C27_ManualWaitBounded ==
    /\ [](polls <= MaxPolls)
    /\ [][(pc = "waiting" /\ polls' # polls)
            => /\ polls' = polls + 1
               /\ elapsed' >= elapsed + PollSleep
               /\ IF SessionAccepted(jar', server_valid')
                  THEN pc' = "login_returned" /\ login_result' = "True"
                  ELSE pc' = "waiting"]_vars
    /\ [][(pc = "waiting" /\ pc' = "login_returned" /\ polls' = polls)
            => login_result' = "False" /\ ~logged_in']_vars
    /\ (pc = "waiting" ~> pc = "login_returned")

\* C24: the table returned by ImprovedSeleniumScraper.scrape_by_username
\* and by CookieTwitterScraper.scrape_tweets has no two rows with the same
\* tweet_url and at most max_tweets rows, whatever the page renders.
C24_ScrollVariantsRespectTarget ==
    pc = "scroll_done" => Unique(result) /\ Len(result) <= max_tweets

====
